---------------------------- MODULE Spec2Model ----------------------------
(***************************************************************************)
(* Model of the KnowledgeGraph component                                   *)
(* (src/frontend/components/knowledge-graph.tsx): the force-directed       *)
(* layout, the frame loop, the filter layer and the pointer handlers.      *)
(*                                                                         *)
(* Numbers.  JavaScript numbers are modelled in fixed point: a length, a   *)
(* coordinate, a velocity, a score or a weight v is held as the integer    *)
(* 1000 * v (thousandths), divisions round to the nearest.  The three      *)
(* non-finite doubles are separate values NaN, PosInf and NegInf.          *)
(* Angles are whole degrees, Math.sin / Math.cos are a table lookup.       *)
(*                                                                         *)
(* React.  A handler that changes state causes a re-render; the effects of *)
(* that render run afterwards in declaration order, all cleanups first:    *)
(* EffectCleanup, LayoutEffect, LoopEffect.  `phase` is the position in    *)
(* that sequence ("idle" when no effect is pending).  Arrays built during  *)
(* render (filteredNodes, filteredEdges) are new objects in every render,  *)
(* so an effect that lists them as a dependency runs after every render.   *)
(***************************************************************************)
EXTENDS Integers, Sequences, FiniteSets, TLC

VARIABLES
  nodes, edges,                 \* props
  dimensions,                   \* useState: {width, height}
  hoveredNode, hoveredEdge, selectedNode, tooltipPosition,
  zoom, pan, isDragging, dragStart,
  showEdgeLabels, showFilters,
  searchQuery, categoryFilter, verificationFilter, credibilityThreshold,
  nodePositionsRef,             \* useRef<NodePosition[]>
  animationRef,                 \* useRef<number>: 0, or the last request id
  pendingFrames,                \* number of requestAnimationFrame callbacks queued
  nodeMap,                      \* the loop effect's captured id -> position map
  nodeMapStale,                 \* the layout was rebuilt after nodeMap was captured
  frameCount,                   \* the loop effect's frame counter
  phase,                        \* "idle" | "cleanup" | "layout" | "loop" | "unmounted"
  lastHandler,                  \* the event handler or frame callback that ran last
  opened,                       \* the window.open calls of the latest handler
  forceEdges, drawnEdges, testedEdges, \* edges the latest frame / pointer move used
  gesture                       \* the pointer gesture in progress on the canvas

vars == <<nodes, edges, dimensions, hoveredNode, hoveredEdge, selectedNode,
          tooltipPosition, zoom, pan, isDragging, dragStart, showEdgeLabels,
          showFilters, searchQuery, categoryFilter, verificationFilter,
          credibilityThreshold, nodePositionsRef, animationRef, pendingFrames,
          nodeMap, nodeMapStale, frameCount, phase, lastHandler, opened,
          forceEdges, drawnEdges, testedEdges, gesture>>

\* A requestAnimationFrame callback is queued
rafPending == pendingFrames > 0

\* cancelAnimationFrame(animationRef.current) under `if (animationRef.current)`:
\* the request made last leaves the queue if it is still there
CancelFrame == IF animationRef # 0 /\ pendingFrames > 0 THEN pendingFrames - 1
               ELSE pendingFrames

---------------------------------------------------------------------------
(* Numbers *)

\* Thousandths per unit.
Unit == 1000

NaN == 2000000001
PosInf == 2000000000
NegInf == -2000000000

\* null / undefined
Null == [null |-> TRUE]
Undef == 2000000002

isFinite(v) == v \notin {NaN, PosInf, NegInf}

Abs(a) == IF a < 0 THEN -a ELSE a

\* Division rounded to the nearest integer (halves away from zero), b > 0.
RDiv(a, b) == IF a >= 0 THEN (a + b \div 2) \div b ELSE -((-a + b \div 2) \div b)

\* Math.max / Math.min: NaN if either argument is NaN.
MathMax(a, b) == IF a = NaN \/ b = NaN THEN NaN ELSE IF a < b THEN b ELSE a
MathMin(a, b) == IF a = NaN \/ b = NaN THEN NaN ELSE IF a < b THEN a ELSE b

\* a < b on doubles: false when either side is NaN.
Less(a, b) == a # NaN /\ b # NaN /\ a < b

RECURSIVE SqrtIter(_, _, _)
SqrtIter(n, lo, hi) ==
  IF lo >= hi THEN lo
  ELSE LET mid == (lo + hi + 1) \div 2
       IN  IF mid * mid <= n THEN SqrtIter(n, mid, hi) ELSE SqrtIter(n, lo, mid - 1)

\* Math.sqrt on a non-negative integer, rounded down.
Sqrt(n) == SqrtIter(n, 0, 46340)

\* Math.sqrt(dx * dx + dy * dy) for dx, dy in thousandths; distances beyond
\* 32 units are computed in tenths.
Hypot(dx, dy) ==
  IF Abs(dx) <= 32000 /\ Abs(dy) <= 32000
  THEN Sqrt(dx * dx + dy * dy)
  ELSE 100 * Sqrt(RDiv(dx, 100) * RDiv(dx, 100) + RDiv(dy, 100) * RDiv(dy, 100))

SinTable ==
  <<0, 17, 35, 52, 70, 87, 105, 122, 139, 156, 174, 191, 208, 225, 242, 259,
    276, 292, 309, 326, 342, 358, 375, 391, 407, 423, 438, 454, 469, 485, 500,
    515, 530, 545, 559, 574, 588, 602, 616, 629, 643, 656, 669, 682, 695, 707,
    719, 731, 743, 755, 766, 777, 788, 799, 809, 819, 829, 839, 848, 857, 866,
    875, 883, 891, 899, 906, 914, 921, 927, 934, 940, 946, 951, 956, 961, 966,
    970, 974, 978, 982, 985, 988, 990, 993, 995, 996, 998, 999, 999, 1000, 1000>>

\* Math.sin of an angle in degrees, in thousandths.
MathSin(deg) ==
  LET a == deg % 360
  IN  IF a <= 90 THEN SinTable[a + 1]
      ELSE IF a <= 180 THEN SinTable[180 - a + 1]
      ELSE IF a <= 270 THEN -SinTable[a - 180 + 1]
      ELSE -SinTable[360 - a + 1]

MathCos(deg) == MathSin(deg + 90)

---------------------------------------------------------------------------
(* Strings: a string is a sequence of one-character strings. *)

LowerOf(c) ==
  CASE c = "A" -> "a" [] c = "B" -> "b" [] c = "C" -> "c" [] c = "D" -> "d"
    [] OTHER -> c

toLowerCase(s) == [i \in 1..Len(s) |-> LowerOf(s[i])]

\* String.prototype.includes
includes(s, q) ==
  \E i \in 0..(Len(s) - Len(q)) : \A k \in 1..Len(q) : s[i + k] = q[k]

---------------------------------------------------------------------------
(* Program constants *)

CANVAS_WIDTH == 1400
CANVAS_HEIGHT == 900
maxFrames == 400

\* Helper function to validate and sanitize numeric values; min and max are
\* optional (Undef).
sanitizeValue(value, fallback, min, max) ==
  IF ~isFinite(value) \/ value = NaN THEN fallback
  ELSE LET r1 == IF min # Undef THEN MathMax(min, value) ELSE value
       IN  IF max # Undef THEN MathMin(max, r1) ELSE r1

---------------------------------------------------------------------------
(* Filter layer: computed in every render *)

\* The predicate of nodes.filter(...)
NodePasses(node) ==
  /\ ~(/\ searchQuery # <<>>
       /\ ~includes(toLowerCase(node.author), toLowerCase(searchQuery))
       /\ ~includes(toLowerCase(node.content), toLowerCase(searchQuery)))
  /\ ~(categoryFilter # "all" /\ node.category # categoryFilter)
  /\ ~(verificationFilter # "all" /\ node.verificationStatus # verificationFilter)
  /\ ~Less(node.credibilityScore, credibilityThreshold * 10)

filteredNodes == SelectSeq(nodes, NodePasses)

filteredNodeIds == {filteredNodes[i].id : i \in 1..Len(filteredNodes)}

\* The edge filter with `||` in place of `&&`
EdgeKept_either(e) == e.source \in filteredNodeIds \/ e.target \in filteredNodeIds

\* The predicate of edges.filter(...)
EdgeKept(e) == e.source \in filteredNodeIds /\ e.target \in filteredNodeIds

filteredEdges == SelectSeq(edges, EdgeKept)

---------------------------------------------------------------------------
(* Node radius *)

\* getNodeRadius without the final Math.min and sanitizeValue
getNodeRadius_unclamped(node) ==
  LET connectionCount ==
        Cardinality({i \in 1..Len(edges) :
                       edges[i].source = node.id \/ edges[i].target = node.id})
      baseRadius == MathMin(MathMax(16 * Unit, 12 * Unit + connectionCount * 2 * Unit), 40 * Unit)
      weightMultiplier ==
        Unit + RDiv(sanitizeValue(node.engagementWeight, 500, 0, Unit) * 6, 10)
      credibilityBonus ==
        IF sanitizeValue(node.credibilityScore, 500, 0, Unit) > 800 THEN 1200 ELSE Unit
  IN  RDiv(RDiv(baseRadius * weightMultiplier, Unit) * credibilityBonus, Unit)

getNodeRadius(node) ==
  LET connectionCount ==
        Cardinality({i \in 1..Len(edges) :
                       edges[i].source = node.id \/ edges[i].target = node.id})
      baseRadius == MathMin(MathMax(16 * Unit, 12 * Unit + connectionCount * 2 * Unit), 40 * Unit)
      weightMultiplier ==
        Unit + RDiv(sanitizeValue(node.engagementWeight, 500, 0, Unit) * 6, 10)
      credibilityBonus ==
        IF sanitizeValue(node.credibilityScore, 500, 0, Unit) > 800 THEN 1200 ELSE Unit
      radius ==
        MathMin(RDiv(RDiv(baseRadius * weightMultiplier, Unit) * credibilityBonus, Unit),
                50 * Unit)
  IN  sanitizeValue(radius, 20 * Unit, 12 * Unit, 50 * Unit)

---------------------------------------------------------------------------
(* Layout initialisation: the body of the first effect *)

RECURSIVE CategoriesOf(_)
\* Object.keys(categoryGroups): the categories in order of first appearance.
CategoriesOf(ns) ==
  IF ns = <<>> THEN <<>>
  ELSE LET rest == CategoriesOf(SubSeq(ns, 1, Len(ns) - 1))
           c == ns[Len(ns)].category
       IN  IF \E i \in 1..Len(rest) : rest[i] = c THEN rest ELSE Append(rest, c)

\* categoryGroups[c]
CategoryGroup(c) == SelectSeq(filteredNodes, LAMBDA n : n.category = c)

RECURSIVE SumCredibility(_)
SumCredibility(ns) ==
  IF ns = <<>> THEN 0
  ELSE sanitizeValue(ns[1].credibilityScore, 500, Undef, Undef) + SumCredibility(Tail(ns))

\* The mean credibility of a category group, in millionths.
AvgCredibility(c) == RDiv(SumCredibility(CategoryGroup(c)) * Unit, Len(CategoryGroup(c)))

\* The categories left in the order of Object.keys, unsorted
SortCategories_unsorted(cats) == cats

RECURSIVE SortCategories(_)
\* categories.sort((a, b) => avgB - avgA): a stable sort, descending mean.
SortCategories(cats) ==
  IF cats = <<>> THEN <<>>
  ELSE LET s == SortCategories(SubSeq(cats, 1, Len(cats) - 1))
           c == cats[Len(cats)]
           pos == Cardinality({i \in 1..Len(s) : AvgCredibility(s[i]) >= AvgCredibility(c)})
       IN  SubSeq(s, 1, pos) \o <<c>> \o SubSeq(s, pos + 1, Len(s))

sortedCategories == SortCategories(CategoriesOf(filteredNodes))

\* Array.prototype.indexOf, 0-based, on a sequence without repeats.
IndexOf(s, x) == (CHOOSE i \in 1..Len(s) : s[i] = x) - 1

\* (2 * Math.PI) / Math.max(categories.length, 1), in degrees
angleStep == 360 \div (IF Len(sortedCategories) > 1 THEN Len(sortedCategories) ELSE 1)

\* The distance computed from the credibility without its clamp to [0, 1]
distanceFromCenter_unclamped(node) ==
  200 * Unit + (Unit - sanitizeValue(node.credibilityScore, 500, Undef, Undef)) * 200

\* Higher credibility = closer to center
distanceFromCenter(node) ==
  200 * Unit + (Unit - sanitizeValue(node.credibilityScore, 500, 0, Unit)) * 200

spreadAngle(i) ==
  LET node == filteredNodes[i]
      categoryIndex == IndexOf(sortedCategories, node.category)
      \* the rank of the node among the filtered nodes of its category
      nodeIndexInCategory ==
        Cardinality({k \in 1..(i - 1) : filteredNodes[k].category = node.category})
      len == Len(CategoryGroup(node.category))
      L == IF len - 1 > 1 THEN len - 1 ELSE 1
      baseAngle == categoryIndex * angleStep - 90
  IN  baseAngle + RDiv((2 * nodeIndexInCategory - L) * angleStep * 8, 2 * L * 10)

\* The NodePosition built for filteredNodes[i]; jit[i] = <<jitterX, jitterY>>.
InitialPosition(i, jit) ==
  LET node == filteredNodes[i]
      centerX == dimensions.width \div 2
      centerY == dimensions.height \div 2
      radius == getNodeRadius(node)
      d == distanceFromCenter(node)
  IN  [x |-> sanitizeValue(centerX + RDiv(MathCos(spreadAngle(i)) * d, Unit) + jit[i][1],
                           centerX, 50 * Unit, dimensions.width - 50 * Unit),
       y |-> sanitizeValue(centerY + RDiv(MathSin(spreadAngle(i)) * d, Unit) + jit[i][2],
                           centerY, 50 * Unit, dimensions.height - 50 * Unit),
       vx |-> 0,
       vy |-> 0,
       node |-> node,
       radius |-> radius,
       weightedRadius |-> radius]

LayoutPositions(jit) == [i \in 1..Len(filteredNodes) |-> InitialPosition(i, jit)]

---------------------------------------------------------------------------
(* simulate(): one physics step *)

\* The velocity change <<x, y>> that p2 gives p1 in the repulsion loop.
Repulsion(p1, p2, fc) ==
  LET dx == p1.x - p2.x
      dy == p1.y - p2.y
      dist == Hypot(dx, dy)
      effectiveDist == MathMax(dist, 10 * Unit)
      minDist == p1.radius + p2.radius + 70 * Unit
      \* 1400 * (1 - frameCount / maxFrames), times 1000
      K == 3500 * (maxFrames - fc)
      edTenths == effectiveDist \div 100
      capped == RDiv(K * 100, edTenths * edTenths) >= 15 * Unit
      ux == RDiv(dx * Unit, effectiveDist)
      uy == RDiv(dy * Unit, effectiveDist)
      forceX == IF capped THEN RDiv(ux * 15, 10)
                ELSE RDiv(RDiv(ux * K, edTenths * edTenths), 100)
      forceY == IF capped THEN RDiv(uy * 15, 10)
                ELSE RDiv(RDiv(uy * K, edTenths * edTenths), 100)
  IN  IF effectiveDist * 2 < minDist * 5
      THEN <<sanitizeValue(forceX, 0, -5 * Unit, 5 * Unit),
             sanitizeValue(forceY, 0, -5 * Unit, 5 * Unit)>>
      ELSE <<0, 0>>

RECURSIVE RepulsionSum(_, _, _, _, _)
\* The inner positions.forEach((p2, j) => ...) from index j on.
RepulsionSum(P, p1, i, j, fc) ==
  IF j > Len(P) THEN <<0, 0>>
  ELSE LET rest == RepulsionSum(P, p1, i, j + 1, fc)
           f == IF i = j THEN <<0, 0>> ELSE Repulsion(p1, P[j], fc)
       IN  <<f[1] + rest[1], f[2] + rest[2]>>

\* Boundary constraints that leave the node's radius out of the padding.
BoundaryClamp_noRadius(p, x, y) ==
  [p EXCEPT !.x = sanitizeValue(x, dimensions.width \div 2, 50 * Unit,
                                dimensions.width - 50 * Unit),
            !.y = sanitizeValue(y, dimensions.height \div 2, 50 * Unit,
                                dimensions.height - 50 * Unit)]

\* Boundary constraints of one node (the last two assignments of the node loop).
BoundaryClamp(p, x, y) ==
  LET padding == p.radius + 50 * Unit
  IN  [p EXCEPT !.x = sanitizeValue(x, dimensions.width \div 2, padding,
                                    dimensions.width - padding),
                !.y = sanitizeValue(y, dimensions.height \div 2, padding,
                                    dimensions.height - padding)]

\* The body of the node loop without `// Cap velocity`
UpdateNode_noCap(P, i, fc) ==
  LET centerX == dimensions.width \div 2
      centerY == dimensions.height \div 2
      x0 == sanitizeValue(P[i].x, centerX, 0, dimensions.width)
      y0 == sanitizeValue(P[i].y, centerY, 0, dimensions.height)
      vx0 == sanitizeValue(P[i].vx, 0, -20 * Unit, 20 * Unit)
      vy0 == sanitizeValue(P[i].vy, 0, -20 * Unit, 20 * Unit)
      p1 == [P[i] EXCEPT !.x = x0, !.y = y0, !.vx = vx0, !.vy = vy0]
      rep == RepulsionSum(P, p1, i, 1, fc)
      distToCenter == Hypot(x0 - centerX, y0 - centerY)
      pullX == IF distToCenter > 380 * Unit
               THEN sanitizeValue(RDiv((centerX - x0) * 15, 10000), 0, -2 * Unit, 2 * Unit)
               ELSE 0
      pullY == IF distToCenter > 380 * Unit
               THEN sanitizeValue(RDiv((centerY - y0) * 15, 10000), 0, -2 * Unit, 2 * Unit)
               ELSE 0
      damping == 8400 + 2 * fc
      vx1 == RDiv((vx0 + rep[1] + pullX) * damping, 10000)
      vy1 == RDiv((vy0 + rep[2] + pullY) * damping, 10000)
  IN  BoundaryClamp([p1 EXCEPT !.vx = vx1, !.vy = vy1], x0 + vx1, y0 + vy1)

\* The body of the outer positions.forEach((p1, i) => ...) for index i.
UpdateNode(P, i, fc) ==
  LET centerX == dimensions.width \div 2
      centerY == dimensions.height \div 2
      x0 == sanitizeValue(P[i].x, centerX, 0, dimensions.width)
      y0 == sanitizeValue(P[i].y, centerY, 0, dimensions.height)
      vx0 == sanitizeValue(P[i].vx, 0, -20 * Unit, 20 * Unit)
      vy0 == sanitizeValue(P[i].vy, 0, -20 * Unit, 20 * Unit)
      p1 == [P[i] EXCEPT !.x = x0, !.y = y0, !.vx = vx0, !.vy = vy0]
      rep == RepulsionSum(P, p1, i, 1, fc)
      distToCenter == Hypot(x0 - centerX, y0 - centerY)
      pullX == IF distToCenter > 380 * Unit
               THEN sanitizeValue(RDiv((centerX - x0) * 15, 10000), 0, -2 * Unit, 2 * Unit)
               ELSE 0
      pullY == IF distToCenter > 380 * Unit
               THEN sanitizeValue(RDiv((centerY - y0) * 15, 10000), 0, -2 * Unit, 2 * Unit)
               ELSE 0
      \* 0.84 + (frameCount / maxFrames) * 0.08, times 10000
      damping == 8400 + 2 * fc
      vx1 == sanitizeValue(RDiv((vx0 + rep[1] + pullX) * damping, 10000), 0,
                           -10 * Unit, 10 * Unit)
      vy1 == sanitizeValue(RDiv((vy0 + rep[2] + pullY) * damping, 10000), 0,
                           -10 * Unit, 10 * Unit)
  IN  BoundaryClamp([p1 EXCEPT !.vx = vx1, !.vy = vy1], x0 + vx1, y0 + vy1)

RECURSIVE NodeLoop(_, _, _)
NodeLoop(P, i, fc) ==
  IF i > Len(P) THEN P ELSE NodeLoop([P EXCEPT ![i] = UpdateNode(P, i, fc)], i + 1, fc)

\* nodeMap.get(id): an index into the captured position array, or Undef.
MapGet(map, id) == IF id \in DOMAIN map THEN map[id] ELSE Undef

\* The endpoint test with its sense inverted: `if (source && target) return`.
Resolves_inverted(map, e) ==
  ~(MapGet(map, e.source) # Undef /\ MapGet(map, e.target) # Undef)

\* Both endpoints of the edge resolve in the map: the edge passes
\* `if (!source || !target) return`.
Resolves(map, e) == MapGet(map, e.source) # Undef /\ MapGet(map, e.target) # Undef

\* The spring force of one edge, applied to its two endpoints.
ApplyEdge(P, map, e) ==
  LET s == map[e.source]
      t == map[e.target]
      dx == P[t].x - P[s].x
      dy == P[t].y - P[s].y
      dist == Hypot(dx, dy)
      effectiveDist == MathMax(dist, 10 * Unit)
      edgeWeight == sanitizeValue(e.weight, 500, 0, Unit)
      idealDist == 160 * Unit + (Unit - edgeWeight) * 120 + (P[s].radius + P[t].radius)
      force == sanitizeValue(
                 RDiv(RDiv((effectiveDist - idealDist) * 5, Unit) * MathMax(edgeWeight, 100), Unit),
                 0, -3 * Unit, 3 * Unit)
      forceX == RDiv(RDiv(dx * Unit, effectiveDist) * force, Unit)
      forceY == RDiv(RDiv(dy * Unit, effectiveDist) * force, Unit)
      fx == sanitizeValue(forceX, 0, -2 * Unit, 2 * Unit)
      fy == sanitizeValue(forceY, 0, -2 * Unit, 2 * Unit)
      P1 == [P EXCEPT ![s].vx = @ + fx, ![s].vy = @ + fy]
  IN  [P1 EXCEPT ![t].vx = @ - fx, ![t].vy = @ - fy]

RECURSIVE EdgeLoop(_, _, _)
\* filteredEdges.forEach((edge) => ...) of the physics step.
EdgeLoop(P, map, es) ==
  IF es = <<>> THEN P
  ELSE EdgeLoop(IF Resolves(map, es[1]) THEN ApplyEdge(P, map, es[1]) ELSE P, map, Tail(es))

\* The edges that pass the endpoint test of the physics step.
ForceEdgesOf(map, es) == {es[k] : k \in {k \in 1..Len(es) : Resolves(map, es[k])}}

\* The edges the frame draws: both endpoints resolve and are at least 0.1 apart.
DrawnEdgesOf(P, map, es) ==
  {es[k] : k \in {k \in 1..Len(es) :
                    /\ Resolves(map, es[k])
                    /\ LET s == map[es[k].source]
                           t == map[es[k].target]
                       IN  Hypot(P[t].x - P[s].x, P[t].y - P[s].y) >= 100}}

\* The positions after one physics step at frame counter fc: the node loop,
\* then the edge loop.
PhysicsStep(P, map, fc) == EdgeLoop(NodeLoop(P, 1, fc), map, filteredEdges)

---------------------------------------------------------------------------
(* Pointer hit-testing *)

\* new Map(positions.map((p) => [p.node.id, p])): for each id the index of the
\* last position that carries it.
MakeNodeMap(P) ==
  [id \in {P[i].node.id : i \in 1..Len(P)} |->
     CHOOSE i \in 1..Len(P) :
       P[i].node.id = id /\ \A k \in (i + 1)..Len(P) : P[k].node.id # id]

\* (screen - pan) / zoom for one axis
ToWorld(screen, panAxis) == RDiv(RDiv(screen - panAxis, 10) * Unit, zoom) * 10

\* The index of the first position within radius + 10 of (x, y), or 0.
FoundNodeIndex(P, x, y) ==
  LET hits == {i \in 1..Len(P) :
                 Hypot(P[i].x - x, P[i].y - y) < P[i].radius + 10 * Unit}
  IN  IF hits = {} THEN 0 ELSE CHOOSE i \in hits : \A k \in hits : i <= k

\* The distance test of one edge against the pointer: the projection of the
\* pointer onto the segment, computed in tenths.
EdgeHit(P, map, e, x, y) ==
  LET s == P[map[e.source]]
      t == P[map[e.target]]
      dx == t.x - s.x
      dy == t.y - s.y
      len == Hypot(dx, dy)
      num == RDiv(x - s.x, 100) * RDiv(dx, 100) + RDiv(y - s.y, 100) * RDiv(dy, 100)
      den == RDiv(dx, 100) * RDiv(dx, 100) + RDiv(dy, 100) * RDiv(dy, 100)
      tt == IF num <= 0 \/ den = 0 THEN 0
            ELSE IF num >= den THEN Unit
            ELSE IF den <= 2000000 THEN RDiv(num * Unit, den)
            ELSE RDiv(num, RDiv(den, Unit))
      projX == s.x + RDiv(tt * dx, Unit)
      projY == s.y + RDiv(tt * dy, Unit)
  IN  len # 0 /\ Hypot(x - projX, y - projY) < 12 * Unit

\* The index in filteredEdges of the first edge that resolves and is hit, or 0.
FoundEdgeIndex(P, x, y) ==
  LET map == MakeNodeMap(P)
      hits == {k \in 1..Len(filteredEdges) :
                 Resolves(map, filteredEdges[k]) /\ EdgeHit(P, map, filteredEdges[k], x, y)}
  IN  IF hits = {} THEN 0 ELSE CHOOSE k \in hits : \A j \in hits : k <= j

\* The edges whose endpoints the edge loop of the pointer move looked up and
\* found, up to the edge it stops at.
TestedEdgesOf(P, x, y) ==
  LET map == MakeNodeMap(P)
      stop == FoundEdgeIndex(P, x, y)
      last == IF stop = 0 THEN Len(filteredEdges) ELSE stop
  IN  {filteredEdges[k] : k \in {k \in 1..last : Resolves(map, filteredEdges[k])}}

---------------------------------------------------------------------------
(* Handlers.  Each ends with React's re-render when a state value changed:  *)
(* the effects of that render are then pending (phase "cleanup").           *)

Rerender(changed) == phase' = IF changed THEN "cleanup" ELSE "idle"

Handler(name) == phase = "idle" /\ lastHandler' = name

UNCHANGED_loop == UNCHANGED <<nodePositionsRef, animationRef, pendingFrames, nodeMap,
                              nodeMapStale, frameCount, forceEdges, drawnEdges>>
UNCHANGED_props == UNCHANGED <<nodes, edges>>
UNCHANGED_filters == UNCHANGED <<searchQuery, categoryFilter, verificationFilter,
                                 credibilityThreshold, showFilters>>
UNCHANGED_view == UNCHANGED <<zoom, pan, dimensions, showEdgeLabels>>
UNCHANGED_pointer == UNCHANGED <<hoveredNode, hoveredEdge, tooltipPosition, isDragging,
                                 dragStart, testedEdges, gesture>>

\* The pointer events of the gesture so far.  `at` is the position of the
\* latest pointer event on the canvas (absent while the pointer is outside).
\* Stages: no button held ("none"); the button went down at `down` with the
\* pan at `pan` ("down"); the pointer has since moved ("drag"); the button
\* was released after such moves and the click that follows is still to be
\* delivered ("up").
GestureNone == [stage |-> "none"]
GestureAt(px, py) == [stage |-> "none", at |-> <<px, py>>]
GestureDown(px, py) == [stage |-> "down", pan |-> pan, down |-> <<px, py>>, at |-> <<px, py>>]
GestureMoved(px, py) == [gesture EXCEPT !.stage = "drag", !.at = <<px, py>>]
GestureEnded == IF "at" \in DOMAIN gesture THEN GestureAt(gesture.at[1], gesture.at[2])
                ELSE GestureNone
GestureReleased == IF gesture.stage = "drag" THEN [gesture EXCEPT !.stage = "up"]
                   ELSE GestureEnded
PointerInside == "at" \in DOMAIN gesture

\* handleMouseMove that tests the edges whether or not a node was found
handleMouseMove_edgeAlways(px, py) ==
  /\ Handler("mouseMove")
  /\ opened' = <<>>
  /\ UNCHANGED_loop /\ UNCHANGED_props /\ UNCHANGED_filters
  /\ UNCHANGED <<zoom, dimensions, showEdgeLabels, selectedNode, isDragging, dragStart>>
  /\ IF isDragging
     THEN /\ pan' = [x |-> px - dragStart.x, y |-> py - dragStart.y]
          /\ gesture' = GestureMoved(px, py)
          /\ UNCHANGED <<hoveredNode, hoveredEdge, tooltipPosition, testedEdges>>
          /\ Rerender(TRUE)
     ELSE LET x == ToWorld(px, pan.x)
              y == ToWorld(py, pan.y)
              positions == nodePositionsRef
              found == FoundNodeIndex(positions, x, y)
              foundNode == IF found = 0 THEN Null ELSE [node |-> positions[found].node]
              edgeIdx == FoundEdgeIndex(positions, x, y)
              foundEdge == IF edgeIdx = 0 THEN Null ELSE filteredEdges[edgeIdx]
          IN  /\ hoveredNode' = foundNode
              /\ hoveredEdge' = foundEdge
              /\ testedEdges' = TestedEdgesOf(positions, x, y)
              /\ tooltipPosition' = IF foundNode # Null \/ hoveredEdge # Null
                                    THEN [x |-> px, y |-> py]
                                    ELSE tooltipPosition
              /\ gesture' = GestureAt(px, py)
              /\ UNCHANGED pan
              /\ Rerender(\/ foundNode # Null
                          \/ hoveredEdge # Null
                          \/ hoveredNode # Null
                          \/ foundEdge # hoveredEdge)

\* handleMouseMove: px, py are e.clientX - rect.left and e.clientY - rect.top
handleMouseMove(px, py) ==
  /\ Handler("mouseMove")
  /\ opened' = <<>>
  /\ UNCHANGED_loop /\ UNCHANGED_props /\ UNCHANGED_filters
  /\ UNCHANGED <<zoom, dimensions, showEdgeLabels, selectedNode, isDragging, dragStart>>
  /\ IF isDragging
     THEN /\ pan' = [x |-> px - dragStart.x, y |-> py - dragStart.y]
          /\ gesture' = GestureMoved(px, py)
          /\ UNCHANGED <<hoveredNode, hoveredEdge, tooltipPosition, testedEdges>>
          /\ Rerender(TRUE)
     ELSE LET x == ToWorld(px, pan.x)
              y == ToWorld(py, pan.y)
              positions == nodePositionsRef
              found == FoundNodeIndex(positions, x, y)
              foundNode == IF found = 0 THEN Null ELSE [node |-> positions[found].node]
              edgeIdx == IF found = 0 THEN FoundEdgeIndex(positions, x, y) ELSE 0
              foundEdge == IF edgeIdx = 0 THEN Null ELSE filteredEdges[edgeIdx]
          IN  /\ hoveredNode' = foundNode
              /\ hoveredEdge' = foundEdge
              /\ testedEdges' = IF found = 0 THEN TestedEdgesOf(positions, x, y) ELSE {}
              /\ tooltipPosition' = IF foundNode # Null \/ hoveredEdge # Null
                                    THEN [x |-> px, y |-> py]
                                    ELSE tooltipPosition
              /\ gesture' = GestureAt(px, py)
              /\ UNCHANGED pan
              /\ Rerender(\/ foundNode # Null
                          \/ hoveredEdge # Null
                          \/ hoveredNode # Null
                          \/ foundEdge # hoveredEdge)

\* handleMouseDown that records the pointer's y without the pan's
handleMouseDown_noOffsetY(px, py) ==
  /\ Handler("mouseDown")
  /\ opened' = <<>>
  /\ isDragging' = TRUE
  /\ dragStart' = [x |-> px - pan.x, y |-> py]
  /\ gesture' = GestureDown(px, py)
  /\ UNCHANGED_loop /\ UNCHANGED_props /\ UNCHANGED_filters /\ UNCHANGED_view
  /\ UNCHANGED <<hoveredNode, hoveredEdge, tooltipPosition, testedEdges, selectedNode>>
  /\ Rerender(TRUE)

\* handleMouseDown: px, py are e.clientX - rect.left and e.clientY - rect.top
handleMouseDown(px, py) ==
  /\ Handler("mouseDown")
  /\ opened' = <<>>
  /\ isDragging' = TRUE
  /\ dragStart' = [x |-> px - pan.x, y |-> py - pan.y]
  /\ gesture' = GestureDown(px, py)
  /\ UNCHANGED_loop /\ UNCHANGED_props /\ UNCHANGED_filters /\ UNCHANGED_view
  /\ UNCHANGED <<hoveredNode, hoveredEdge, tooltipPosition, testedEdges, selectedNode>>
  /\ Rerender(TRUE)

handleMouseUp ==
  /\ Handler("mouseUp")
  /\ opened' = <<>>
  /\ isDragging' = FALSE
  /\ gesture' = GestureReleased
  /\ UNCHANGED_loop /\ UNCHANGED_props /\ UNCHANGED_filters /\ UNCHANGED_view
  /\ UNCHANGED <<hoveredNode, hoveredEdge, tooltipPosition, testedEdges, selectedNode,
                 dragStart>>
  /\ Rerender(isDragging)

\* onMouseLeave that also drops the selection
onMouseLeave_deselect ==
  /\ Handler("mouseLeave")
  /\ opened' = <<>>
  /\ gesture' = GestureNone
  /\ hoveredNode' = Null
  /\ hoveredEdge' = Null
  /\ isDragging' = FALSE
  /\ selectedNode' = Null
  /\ UNCHANGED_loop /\ UNCHANGED_props /\ UNCHANGED_filters /\ UNCHANGED_view
  /\ UNCHANGED <<tooltipPosition, testedEdges, dragStart>>
  /\ Rerender(hoveredNode # Null \/ hoveredEdge # Null \/ isDragging
              \/ selectedNode # Null)

\* The canvas's onMouseLeave
onMouseLeave ==
  /\ Handler("mouseLeave")
  /\ opened' = <<>>
  /\ gesture' = GestureNone
  /\ hoveredNode' = Null
  /\ hoveredEdge' = Null
  /\ isDragging' = FALSE
  /\ UNCHANGED_loop /\ UNCHANGED_props /\ UNCHANGED_filters /\ UNCHANGED_view
  /\ UNCHANGED <<tooltipPosition, testedEdges, selectedNode, dragStart>>
  /\ Rerender(hoveredNode # Null \/ hoveredEdge # Null \/ isDragging)

\* handleClick that opens the node's URL on the selecting click as well
handleClick_openOnSelect ==
  /\ Handler("click")
  /\ UNCHANGED_loop /\ UNCHANGED_props /\ UNCHANGED_filters /\ UNCHANGED_view
  /\ UNCHANGED <<hoveredNode, hoveredEdge, tooltipPosition, isDragging, dragStart,
                 testedEdges>>
  /\ gesture' = IF isDragging THEN gesture ELSE GestureEnded
  /\ IF hoveredNode # Null /\ ~isDragging
     THEN /\ opened' = IF hoveredNode.node.url # <<>>
                       THEN <<[url |-> hoveredNode.node.url, target |-> "_blank"]>>
                       ELSE <<>>
          /\ selectedNode' = hoveredNode
          /\ Rerender(selectedNode = Null \/ selectedNode.node.id # hoveredNode.node.id)
     ELSE IF hoveredNode = Null /\ ~isDragging
          THEN /\ opened' = <<>>
               /\ selectedNode' = Null
               /\ Rerender(selectedNode # Null)
          ELSE /\ opened' = <<>>
               /\ UNCHANGED selectedNode
               /\ Rerender(FALSE)

\* handleClick whose second click on the selected node deselects it
handleClick_toggle ==
  /\ Handler("click")
  /\ UNCHANGED_loop /\ UNCHANGED_props /\ UNCHANGED_filters /\ UNCHANGED_view
  /\ UNCHANGED <<hoveredNode, hoveredEdge, tooltipPosition, isDragging, dragStart,
                 testedEdges>>
  /\ gesture' = IF isDragging THEN gesture ELSE GestureEnded
  /\ opened' = <<>>
  /\ IF hoveredNode # Null /\ ~isDragging
     THEN IF selectedNode # Null /\ selectedNode.node.id = hoveredNode.node.id
          THEN selectedNode' = Null /\ Rerender(TRUE)
          ELSE selectedNode' = hoveredNode /\ Rerender(TRUE)
     ELSE IF hoveredNode = Null /\ ~isDragging
          THEN selectedNode' = Null /\ Rerender(selectedNode # Null)
          ELSE UNCHANGED selectedNode /\ Rerender(FALSE)

\* handleClick that takes any selection, not only the hovered node's, for the
\* first click of a double click
handleClick_anySelection ==
  /\ Handler("click")
  /\ UNCHANGED_loop /\ UNCHANGED_props /\ UNCHANGED_filters /\ UNCHANGED_view
  /\ UNCHANGED <<hoveredNode, hoveredEdge, tooltipPosition, isDragging, dragStart,
                 testedEdges>>
  /\ gesture' = IF isDragging THEN gesture ELSE GestureEnded
  /\ IF hoveredNode # Null /\ ~isDragging
     THEN IF selectedNode # Null
          THEN /\ opened' = IF hoveredNode.node.url # <<>>
                            THEN <<[url |-> hoveredNode.node.url, target |-> "_blank"]>>
                            ELSE <<>>
               /\ UNCHANGED selectedNode
               /\ Rerender(FALSE)
          ELSE /\ opened' = <<>>
               /\ selectedNode' = hoveredNode
               /\ Rerender(TRUE)
     ELSE IF hoveredNode = Null /\ ~isDragging
          THEN /\ opened' = <<>>
               /\ selectedNode' = Null
               /\ Rerender(selectedNode # Null)
          ELSE /\ opened' = <<>>
               /\ UNCHANGED selectedNode
               /\ Rerender(FALSE)

\* handleClick
handleClick ==
  /\ Handler("click")
  /\ UNCHANGED_loop /\ UNCHANGED_props /\ UNCHANGED_filters /\ UNCHANGED_view
  /\ UNCHANGED <<hoveredNode, hoveredEdge, tooltipPosition, isDragging, dragStart,
                 testedEdges>>
  /\ gesture' = IF isDragging THEN gesture ELSE GestureEnded
  /\ IF hoveredNode # Null /\ ~isDragging
     THEN IF selectedNode # Null /\ selectedNode.node.id = hoveredNode.node.id
          THEN \* Double click - open URL
               /\ opened' = IF hoveredNode.node.url # <<>>
                            THEN <<[url |-> hoveredNode.node.url, target |-> "_blank"]>>
                            ELSE <<>>
               /\ UNCHANGED selectedNode
               /\ Rerender(FALSE)
          ELSE \* Single click - select node
               /\ opened' = <<>>
               /\ selectedNode' = hoveredNode
               /\ Rerender(TRUE)
     ELSE IF hoveredNode = Null /\ ~isDragging
          THEN \* Click on empty space - deselect
               /\ opened' = <<>>
               /\ selectedNode' = Null
               /\ Rerender(selectedNode # Null)
          ELSE /\ opened' = <<>>
               /\ UNCHANGED selectedNode
               /\ Rerender(FALSE)

\* handleZoomIn without the upper limit
handleZoomIn_uncapped ==
  /\ Handler("zoomIn")
  /\ opened' = <<>>
  /\ zoom' = RDiv(zoom * 12, 10)
  /\ UNCHANGED_loop /\ UNCHANGED_props /\ UNCHANGED_filters /\ UNCHANGED_pointer
  /\ UNCHANGED <<pan, dimensions, showEdgeLabels, selectedNode>>
  /\ Rerender(zoom' # zoom)

handleZoomIn ==
  /\ Handler("zoomIn")
  /\ opened' = <<>>
  /\ zoom' = MathMin(RDiv(zoom * 12, 10), 3 * Unit)
  /\ UNCHANGED_loop /\ UNCHANGED_props /\ UNCHANGED_filters /\ UNCHANGED_pointer
  /\ UNCHANGED <<pan, dimensions, showEdgeLabels, selectedNode>>
  /\ Rerender(zoom' # zoom)

handleZoomOut ==
  /\ Handler("zoomOut")
  /\ opened' = <<>>
  /\ zoom' = MathMax(RDiv(zoom * 10, 12), 300)
  /\ UNCHANGED_loop /\ UNCHANGED_props /\ UNCHANGED_filters /\ UNCHANGED_pointer
  /\ UNCHANGED <<pan, dimensions, showEdgeLabels, selectedNode>>
  /\ Rerender(zoom' # zoom)

handleReset ==
  /\ Handler("reset")
  /\ opened' = <<>>
  /\ zoom' = 850
  /\ pan' = [x |-> 50 * Unit, y |-> 30 * Unit]
  /\ selectedNode' = Null
  /\ UNCHANGED_loop /\ UNCHANGED_props /\ UNCHANGED_filters /\ UNCHANGED_pointer
  /\ UNCHANGED <<dimensions, showEdgeLabels>>
  /\ Rerender(TRUE)

\* The close button of the selected-node panel, rendered while a node is selected.
closeSelected ==
  /\ Handler("closeSelected")
  /\ selectedNode # Null
  /\ opened' = <<>>
  /\ selectedNode' = Null
  /\ UNCHANGED_loop /\ UNCHANGED_props /\ UNCHANGED_filters /\ UNCHANGED_pointer
  /\ UNCHANGED_view
  /\ Rerender(TRUE)

toggleEdgeLabels ==
  /\ Handler("toggleEdgeLabels")
  /\ opened' = <<>>
  /\ showEdgeLabels' = ~showEdgeLabels
  /\ UNCHANGED_loop /\ UNCHANGED_props /\ UNCHANGED_filters /\ UNCHANGED_pointer
  /\ UNCHANGED <<zoom, pan, dimensions, selectedNode>>
  /\ Rerender(TRUE)

toggleFilters ==
  /\ Handler("toggleFilters")
  /\ opened' = <<>>
  /\ showFilters' = ~showFilters
  /\ UNCHANGED_loop /\ UNCHANGED_props /\ UNCHANGED_pointer /\ UNCHANGED_view
  /\ UNCHANGED <<searchQuery, categoryFilter, verificationFilter, credibilityThreshold,
                 selectedNode>>
  /\ Rerender(TRUE)

clearFilters ==
  /\ Handler("clearFilters")
  /\ opened' = <<>>
  /\ searchQuery' = <<>>
  /\ categoryFilter' = "all"
  /\ verificationFilter' = "all"
  /\ credibilityThreshold' = 0
  /\ UNCHANGED_loop /\ UNCHANGED_props /\ UNCHANGED_pointer /\ UNCHANGED_view
  /\ UNCHANGED <<showFilters, selectedNode>>
  /\ Rerender(\/ searchQuery # <<>> \/ categoryFilter # "all"
              \/ verificationFilter # "all" \/ credibilityThreshold # 0)

setSearchQuery(q) ==
  /\ Handler("setSearchQuery")
  /\ opened' = <<>>
  /\ searchQuery' = q
  /\ UNCHANGED_loop /\ UNCHANGED_props /\ UNCHANGED_pointer /\ UNCHANGED_view
  /\ UNCHANGED <<categoryFilter, verificationFilter, credibilityThreshold, showFilters,
                 selectedNode>>
  /\ Rerender(q # searchQuery)

setCategoryFilter(c) ==
  /\ Handler("setCategoryFilter")
  /\ opened' = <<>>
  /\ categoryFilter' = c
  /\ UNCHANGED_loop /\ UNCHANGED_props /\ UNCHANGED_pointer /\ UNCHANGED_view
  /\ UNCHANGED <<searchQuery, verificationFilter, credibilityThreshold, showFilters,
                 selectedNode>>
  /\ Rerender(c # categoryFilter)

setVerificationFilter(v) ==
  /\ Handler("setVerificationFilter")
  /\ opened' = <<>>
  /\ verificationFilter' = v
  /\ UNCHANGED_loop /\ UNCHANGED_props /\ UNCHANGED_pointer /\ UNCHANGED_view
  /\ UNCHANGED <<searchQuery, categoryFilter, credibilityThreshold, showFilters,
                 selectedNode>>
  /\ Rerender(v # verificationFilter)

\* The range input (0..100): setCredibilityThreshold(parseInt(e.target.value))
setCredibilityThreshold(t) ==
  /\ Handler("setCredibilityThreshold")
  /\ opened' = <<>>
  /\ credibilityThreshold' = t
  /\ UNCHANGED_loop /\ UNCHANGED_props /\ UNCHANGED_pointer /\ UNCHANGED_view
  /\ UNCHANGED <<searchQuery, categoryFilter, verificationFilter, showFilters,
                 selectedNode>>
  /\ Rerender(t # credibilityThreshold)

\* updateDimensions: w is the container's rect.width
updateDimensions(w) ==
  /\ Handler("resize")
  /\ opened' = <<>>
  /\ dimensions' = [width |-> MathMax(w, CANVAS_WIDTH * Unit), height |-> CANVAS_HEIGHT * Unit]
  /\ UNCHANGED_loop /\ UNCHANGED_props /\ UNCHANGED_filters /\ UNCHANGED_pointer
  /\ UNCHANGED <<zoom, pan, showEdgeLabels, selectedNode>>
  /\ Rerender(TRUE)

---------------------------------------------------------------------------
(* Effects and the frame loop *)

UNCHANGED_state == UNCHANGED <<nodes, edges, dimensions, hoveredNode, hoveredEdge,
                               selectedNode, tooltipPosition, zoom, pan, isDragging,
                               dragStart, showEdgeLabels, showFilters, searchQuery,
                               categoryFilter, verificationFilter, credibilityThreshold,
                               opened, testedEdges, gesture>>

\* A cleanup of the frame-loop effect that leaves the scheduled frame queued
EffectCleanup_noCancel ==
  /\ phase = "cleanup"
  /\ phase' = "layout"
  /\ UNCHANGED_state /\ UNCHANGED lastHandler
  /\ UNCHANGED <<nodePositionsRef, animationRef, pendingFrames, nodeMap, nodeMapStale,
                 frameCount, forceEdges, drawnEdges>>

\* The cleanup of the frame-loop effect
EffectCleanup ==
  /\ phase = "cleanup"
  /\ pendingFrames' = CancelFrame
  /\ phase' = "layout"
  /\ UNCHANGED_state /\ UNCHANGED lastHandler
  /\ UNCHANGED <<nodePositionsRef, animationRef, nodeMap, nodeMapStale, frameCount,
                 forceEdges, drawnEdges>>

\* A layout effect that builds the positions at mount only
LayoutEffect_mountOnly(jit) ==
  /\ phase = "layout"
  /\ nodePositionsRef' = IF nodePositionsRef = <<>> THEN LayoutPositions(jit)
                         ELSE nodePositionsRef
  /\ nodeMapStale' = TRUE
  /\ phase' = "loop"
  /\ UNCHANGED_state /\ UNCHANGED lastHandler
  /\ UNCHANGED <<animationRef, pendingFrames, nodeMap, frameCount, forceEdges, drawnEdges>>

\* The layout effect; jit[i] is the random jitter <<x, y>> of filteredNodes[i].
LayoutEffect(jit) ==
  /\ phase = "layout"
  /\ nodePositionsRef' = LayoutPositions(jit)
  /\ nodeMapStale' = TRUE
  /\ phase' = "loop"
  /\ UNCHANGED_state /\ UNCHANGED lastHandler
  /\ UNCHANGED <<animationRef, pendingFrames, nodeMap, frameCount, forceEdges, drawnEdges>>

\* simulate() with the loop's counter at fc and its map: what it leaves behind.
Simulate(P, map, fc) ==
  LET physics == fc < maxFrames
      P1 == IF physics THEN PhysicsStep(P, map, fc) ELSE P
  IN  /\ nodePositionsRef' = P1
      /\ frameCount' = IF physics THEN fc + 1 ELSE fc
      /\ forceEdges' = IF physics THEN ForceEdgesOf(map, filteredEdges) ELSE {}
      /\ drawnEdges' = DrawnEdgesOf(P1, map, filteredEdges)
      /\ animationRef' = 1
      /\ pendingFrames' = (IF phase = "loop" THEN pendingFrames ELSE pendingFrames - 1) + 1

\* The frame-loop effect captured the map before the layout effect rebuilt
\* the positions
LoopEffect_staleMap ==
  /\ phase = "loop"
  /\ UNCHANGED <<nodeMap, nodeMapStale>>
  /\ Simulate(nodePositionsRef, nodeMap, 0)
  /\ phase' = "idle"
  /\ UNCHANGED_state /\ UNCHANGED lastHandler

\* The frame-loop effect: captures nodeMap, resets the counter, runs simulate().
LoopEffect ==
  /\ phase = "loop"
  /\ nodeMap' = MakeNodeMap(nodePositionsRef)
  /\ nodeMapStale' = FALSE
  /\ Simulate(nodePositionsRef, nodeMap', 0)
  /\ phase' = "idle"
  /\ UNCHANGED_state /\ UNCHANGED lastHandler

\* The requestAnimationFrame callback: simulate() again.  Frames are explored
\* while the counter is below cap.
Frame(cap) ==
  /\ phase \in {"idle", "unmounted"}
  /\ rafPending
  /\ frameCount < cap
  /\ Simulate(nodePositionsRef, nodeMap, frameCount)
  /\ lastHandler' = "frame"
  /\ UNCHANGED <<nodeMap, nodeMapStale, phase>>
  /\ UNCHANGED_state

\* The component is removed: React runs the cleanup of the frame-loop effect.
\* No handler runs afterwards; a frame callback still queued would.
unmount ==
  /\ phase = "idle"
  /\ lastHandler' = "unmount"
  /\ pendingFrames' = CancelFrame
  /\ phase' = "unmounted"
  /\ UNCHANGED_state
  /\ UNCHANGED <<nodePositionsRef, animationRef, nodeMap, nodeMapStale, frameCount,
                 forceEdges, drawnEdges>>

---------------------------------------------------------------------------
(* Initial state: the component has rendered once, its effects are pending *)

InitState(ns, es) ==
  /\ nodes = ns
  /\ edges = es
  /\ dimensions = [width |-> CANVAS_WIDTH * Unit, height |-> CANVAS_HEIGHT * Unit]
  /\ hoveredNode = Null
  /\ hoveredEdge = Null
  /\ selectedNode = Null
  /\ tooltipPosition = [x |-> 0, y |-> 0]
  /\ zoom = 850
  /\ pan = [x |-> 50 * Unit, y |-> 30 * Unit]
  /\ isDragging = FALSE
  /\ dragStart = [x |-> 0, y |-> 0]
  /\ showEdgeLabels = TRUE
  /\ showFilters = FALSE
  /\ searchQuery = <<>>
  /\ categoryFilter = "all"
  /\ verificationFilter = "all"
  /\ credibilityThreshold = 0
  /\ nodePositionsRef = <<>>
  /\ animationRef = 0
  /\ pendingFrames = 0
  /\ nodeMap = <<>>
  /\ nodeMapStale = FALSE
  /\ frameCount = 0
  /\ phase = "layout"
  /\ lastHandler = "mount"
  /\ opened = <<>>
  /\ forceEdges = {}
  /\ drawnEdges = {}
  /\ testedEdges = {}
  /\ gesture = GestureNone

\* A GraphNode and a GraphEdge (the fields the component reads)
GraphNode(id, author, content, category, status, credibility, engagement, url) ==
  [id |-> id, author |-> author, content |-> content, category |-> category,
   verificationStatus |-> status, credibilityScore |-> credibility,
   engagementWeight |-> engagement, url |-> url]

GraphEdge(source, target, weight) == [source |-> source, target |-> target, weight |-> weight]

\* Math.random() draws: the jitter (Math.random() - 0.5) * 60 of one axis
JitterLow == -30000
JitterHigh == 29999

\* Jitter assignments for the current filtered nodes over the pairs J: every
\* node its own draw, or all nodes the same draw.
Jitters(J) == [1..Len(filteredNodes) -> J]
SameJitters(J) == {[i \in 1..Len(filteredNodes) |-> j] : j \in J}

\* (world * zoom) + pan for one axis: where the canvas shows a world coordinate
ToScreen(world, panAxis) == RDiv(RDiv(world, 10) * zoom, 100) + panAxis

\* Pointer positions: the centre of every node, the midpoint of every edge
\* between placed nodes, and the canvas origin.
PointerTargets ==
  LET P == nodePositionsRef
      map == MakeNodeMap(P)
  IN  {<<ToScreen(P[i].x, pan.x), ToScreen(P[i].y, pan.y)>> : i \in 1..Len(P)}
      \cup {<<ToScreen((P[map[e.source]].x + P[map[e.target]].x) \div 2, pan.x),
              ToScreen((P[map[e.source]].y + P[map[e.target]].y) \div 2, pan.y)>> :
              e \in {filteredEdges[k] : k \in {k \in 1..Len(filteredEdges) :
                       /\ filteredEdges[k].source \in DOMAIN map
                       /\ filteredEdges[k].target \in DOMAIN map}}}
      \cup {<<0, 0>>}

---------------------------------------------------------------------------
(* SpecSim: the physics over the whole frame budget *)

\* Three nodes of one category; the middle one sits at the top of the circle,
\* 400 from the centre, and an edge names a node that does not exist.
SimNodes ==
  <<GraphNode("A", <<"A">>, <<"x">>, "claim", "verified", 900, 500, <<"u">>),
    GraphNode("B", <<"B">>, <<"y">>, "claim", "unverified", 0, NaN, <<>>),
    GraphNode("C", <<"C">>, <<"z">>, "claim", "debunked", 400, 5200, <<"v">>)>>

SimEdges ==
  <<GraphEdge("A", "B", 500), GraphEdge("A", "ghost", 900), GraphEdge("B", "C", NaN)>>

SimJitter == {<<0, 0>>, <<JitterLow, JitterHigh>>}

\* Container widths: narrower than the canvas minimum, and wider.
SimWidths == {1000 * Unit, 1600 * Unit}

InitSim == InitState(SimNodes, SimEdges)

NextSim ==
  \/ EffectCleanup
  \/ \E jit \in SameJitters(SimJitter) : LayoutEffect(jit)
  \/ LoopEffect
  \/ Frame(maxFrames + 1)
  \/ toggleEdgeLabels
  \/ \E w \in SimWidths : updateDimensions(w)

SpecSim == InitSim /\ [][NextSim]_vars

---------------------------------------------------------------------------
(* Bounds of the smaller specifications *)

\* Frames explored after each run of the frame-loop effect.
FrameCap == 2

\* The largest number of incident edges of the node in SpecRadius.
MaxDegree == 15

\* Drag steps explored to the right of the initial pan.
MaxPanSteps == 1

---------------------------------------------------------------------------
(* SpecRadius: getNodeRadius over pathological scores and degrees *)

ScoreValues == {NaN, PosInf, NegInf, -500, 0, 500, 810, 1000, 5200}

InitRadius ==
  \E c \in ScoreValues, w \in ScoreValues, k \in 0..MaxDegree :
    InitState(<<GraphNode("A", <<"A">>, <<"x">>, "claim", "verified", c, w, <<>>)>>,
              [i \in 1..k |-> GraphEdge("A", "ghost", 500)])

NextRadius ==
  \/ \E jit \in SameJitters({<<0, 0>>}) : LayoutEffect(jit)
  \/ LoopEffect
  \/ Frame(FrameCap)

SpecRadius == InitRadius /\ [][NextRadius]_vars

---------------------------------------------------------------------------
(* SpecView: the zoom buttons and reset *)

ViewNodes ==
  <<GraphNode("A", <<"A">>, <<"x">>, "claim", "verified", 900, 500, <<"u">>),
    GraphNode("B", <<"B">>, <<"y">>, "evidence", "unverified", 400, 200, <<>>)>>

ViewEdges == <<GraphEdge("A", "B", 500)>>

InitView == InitState(ViewNodes, ViewEdges)

NextView ==
  \/ EffectCleanup
  \/ \E jit \in SameJitters({<<0, 0>>}) : LayoutEffect(jit)
  \/ LoopEffect
  \/ Frame(FrameCap)
  \/ handleZoomIn
  \/ handleZoomOut
  \/ handleReset
  \/ toggleFilters
  \/ unmount

SpecView == InitView /\ [][NextView]_vars

---------------------------------------------------------------------------
(* SpecUI: pointer moves, drags and clicks *)

\* Pointer moves of a drag: DragStep to the left or to the right of the
\* latest pointer position, while the pan stays within MaxPanSteps such
\* steps to the right of the initial pan.  The Reset button lies outside the canvas, so
\* the pointer presses it after it has left the canvas.
DragStep == 40000

PanWithinBound(px) ==
  (px - dragStart.x - 50 * Unit) \in 0..(MaxPanSteps * DragStep)

DragMoves ==
  {q \in {<<gesture.at[1] + d, gesture.at[2]>> : d \in {-DragStep, DragStep}} :
     PanWithinBound(q[1])}

InitUI == InitState(ViewNodes, ViewEdges)

NextUI ==
  \/ EffectCleanup
  \/ \E jit \in SameJitters({<<0, 0>>}) : LayoutEffect(jit)
  \/ LoopEffect
  \/ \E p \in (IF isDragging THEN DragMoves ELSE PointerTargets) :
       handleMouseMove(p[1], p[2])
  \/ PointerInside /\ handleMouseDown(gesture.at[1], gesture.at[2])
  \/ PointerInside /\ handleMouseUp
  \/ PointerInside /\ onMouseLeave
  \/ PointerInside /\ handleClick
  \/ closeSelected
  \/ ~PointerInside /\ handleReset

SpecUI == InitUI /\ [][NextUI]_vars

\* SpecOpen: hovering and clicking, one drag of DragStep from the initial
\* pan, and the controls beside the canvas, which the pointer reaches after
\* leaving it: one zoom step and back, the verification filter set and
\* cleared.
NextOpen ==
  \/ EffectCleanup
  \/ \E jit \in SameJitters({<<0, 0>>}) : LayoutEffect(jit)
  \/ LoopEffect
  \/ \E p \in (IF isDragging THEN {<<gesture.down[1] + DragStep, gesture.down[2]>>}
               ELSE PointerTargets) : handleMouseMove(p[1], p[2])
  \/ PointerInside /\ pan.x = 50 * Unit
       /\ handleMouseDown(gesture.at[1], gesture.at[2])
  \/ PointerInside /\ handleMouseUp
  \/ PointerInside /\ onMouseLeave
  \/ PointerInside /\ handleClick
  \/ ~PointerInside /\ zoom = 850 /\ handleZoomIn
  \/ ~PointerInside /\ zoom # 850 /\ handleZoomOut
  \/ ~PointerInside /\ verificationFilter = "all" /\ setVerificationFilter("verified")
  \/ ~PointerInside /\ verificationFilter # "all" /\ clearFilters

SpecOpen == InitUI /\ [][NextOpen]_vars

---------------------------------------------------------------------------
(* SpecStep: the physics step over pathological scores and weights *)

\* Two nodes of two categories, placed on opposite sides of the centre, and
\* six edges between them: the springs pull hard enough for the velocity cap
\* to act within the first frames.  Node A's scores and the edges' weight
\* range over StepScores: not a number, infinite, out of range and ordinary.
StepScores == {NaN, PosInf, NegInf, -500, 500, 5200}

InitStep ==
  \E c \in StepScores, w \in StepScores, ew \in StepScores :
    InitState(<<GraphNode("A", <<"A">>, <<"x">>, "claim", "verified", c, w, <<>>),
                GraphNode("B", <<"B">>, <<"y">>, "evidence", "unverified", 0, 500, <<>>)>>,
              [k \in 1..6 |-> GraphEdge("A", "B", ew)])

NextStep ==
  \/ EffectCleanup
  \/ \E jit \in SameJitters(SimJitter) : LayoutEffect(jit)
  \/ LoopEffect
  \/ Frame(FrameCap)
  \/ toggleEdgeLabels

SpecStep == InitStep /\ [][NextStep]_vars

---------------------------------------------------------------------------
(* SpecHover: hit testing over two edges that lie on top of each other *)

\* The edge list starts with an edge to a node that does not exist, followed
\* by two edges between A and B, one in each direction.
HoverEdges ==
  <<GraphEdge("ghost", "A", 900), GraphEdge("A", "B", 500), GraphEdge("B", "A", 800)>>

InitHover == InitState(ViewNodes, HoverEdges)

NextHover ==
  \/ EffectCleanup
  \/ \E jit \in SameJitters({<<0, 0>>}) : LayoutEffect(jit)
  \/ LoopEffect
  \/ \E p \in (IF isDragging THEN DragMoves ELSE PointerTargets) :
       handleMouseMove(p[1], p[2])
  \/ PointerInside /\ handleMouseDown(gesture.at[1], gesture.at[2])
  \/ PointerInside /\ handleMouseUp
  \/ PointerInside /\ onMouseLeave
  \/ verificationFilter = "all" /\ setVerificationFilter("verified")
  \/ verificationFilter # "all" /\ clearFilters

SpecHover == InitHover /\ [][NextHover]_vars

---------------------------------------------------------------------------
(* SpecGraph: filters over graphs with dangling edges *)

\* The example of the specification: nodes A, B and an edge to "ghost".
GraphOne ==
  [nodes |-> <<GraphNode("A", <<"A", "b">>, <<"x">>, "claim", "verified", 900, 500, <<"u">>),
               GraphNode("B", <<"B">>, <<"a">>, "evidence", "unverified", 400, 200, <<>>)>>,
   edges |-> <<GraphEdge("A", "B", 500), GraphEdge("A", "ghost", 900)>>]

GraphTwo ==
  [nodes |-> <<GraphNode("A", <<"A">>, <<"x">>, "claim", "verified", 400, 500, <<"u">>),
               GraphNode("B", <<"B">>, <<"a">>, "evidence", "unverified", 600, 200, <<>>),
               GraphNode("C", <<"C">>, <<"z">>, "claim", "unverified", NaN, 200, <<>>)>>,
   edges |-> <<GraphEdge("ghost", "C", 900), GraphEdge("A", "B", 500),
               GraphEdge("B", "C", NaN), GraphEdge("C", "A", 200)>>]

InitGraph == \E g \in {GraphOne, GraphTwo} : InitState(g.nodes, g.edges)

NextGraph ==
  \/ EffectCleanup
  \/ \E jit \in SameJitters({<<0, 0>>}) : LayoutEffect(jit)
  \/ LoopEffect
  \/ \E p \in PointerTargets : handleMouseMove(p[1], p[2])
  \/ setCategoryFilter("claim")
  \/ setVerificationFilter("verified")
  \/ setCredibilityThreshold(50)
  \/ setSearchQuery(<<"a">>)
  \/ clearFilters

SpecGraph == InitGraph /\ [][NextGraph]_vars

---------------------------------------------------------------------------
(* SpecLayout: layout initialisation over several categories *)

\* Four categories; "context" (mean 0.4) appears before "claim" (0.4).
LayoutOne ==
  <<GraphNode("n1", <<"A">>, <<"x">>, "context", "verified", 200, 500, <<>>),
    GraphNode("n2", <<"B">>, <<"x">>, "claim", "verified", 400, 500, <<>>),
    GraphNode("n3", <<"C">>, <<"x">>, "context", "unverified", 600, 500, <<>>),
    GraphNode("n4", <<"D">>, <<"x">>, "evidence", "verified", 900, 500, <<>>),
    GraphNode("n5", <<"A">>, <<"x">>, "source", "debunked", NaN, 500, <<>>)>>

\* Scores outside [0, 1] and infinite ones; "evidence" and "source" tie at the
\* substituted 0.5.
LayoutTwo ==
  <<GraphNode("n1", <<"A">>, <<"x">>, "claim", "verified", 5200, 500, <<>>),
    GraphNode("n2", <<"B">>, <<"x">>, "evidence", "verified", PosInf, 500, <<>>),
    GraphNode("n3", <<"C">>, <<"x">>, "claim", "unverified", -500, 500, <<>>),
    GraphNode("n4", <<"D">>, <<"x">>, "source", "verified", NegInf, 500, <<>>),
    GraphNode("n5", <<"A">>, <<"x">>, "context", "debunked", 1000, 500, <<>>)>>

LayoutEdges == <<GraphEdge("n1", "n2", 500), GraphEdge("n3", "n4", 800)>>

LayoutJitter == {<<0, 0>>, <<JitterLow, JitterHigh>>, <<JitterHigh, JitterLow>>}

NoJitter == [i \in 1..Len(filteredNodes) |-> <<0, 0>>]

InitLayout == \E ns \in {LayoutOne, LayoutTwo} : InitState(ns, LayoutEdges)

NextLayout ==
  \/ EffectCleanup
  \/ \E jit \in SameJitters(LayoutJitter) : LayoutEffect(jit)
  \/ LoopEffect
  \/ Frame(FrameCap)
  \/ toggleEdgeLabels
  \/ setVerificationFilter("verified")
  \/ clearFilters

SpecLayout == InitLayout /\ [][NextLayout]_vars

---------------------------------------------------------------------------
(* SpecRepel: a layout whose random jitter puts two nodes on one point *)

\* Two nodes of the least credible category and one node in each of three
\* other categories.  The layout places n2 (the last node of the last
\* category) and n3 (the only node of the first category) eighteen degrees
\* apart at 200 from the centre, less than 60 from each other on either
\* axis, and every other node beyond the repulsion range of these two.
RepelNodes ==
  <<GraphNode("n1", <<"a">>, <<"x">>, "claim", "verified", 0, 0, <<>>),
    GraphNode("n2", <<"a">>, <<"x">>, "claim", "verified", 1000, 0, <<>>),
    GraphNode("n3", <<"a">>, <<"x">>, "evidence", "verified", 1000, 0, <<>>),
    GraphNode("n4", <<"a">>, <<"x">>, "context", "verified", 800, 0, <<>>),
    GraphNode("n5", <<"a">>, <<"x">>, "source", "verified", 600, 0, <<>>)>>

RepelWeights == {NaN, 0, 200, 1000}

\* The draws of Math.random() that move nodes 2 and 3 of the layout onto the
\* point midway between their places, the other nodes getting no jitter.
CoincideJitter ==
  LET P0 == LayoutPositions(NoJitter)
      j2 == <<(P0[3].x - P0[2].x) \div 2, (P0[3].y - P0[2].y) \div 2>>
      j3 == <<P0[2].x + j2[1] - P0[3].x, P0[2].y + j2[2] - P0[3].y>>
  IN  [i \in 1..Len(filteredNodes) |->
         IF i = 2 THEN j2 ELSE IF i = 3 THEN j3 ELSE <<0, 0>>]

\* Every draw is a value (Math.random() - 0.5) * 60 can take.
InJitterRange(jit) ==
  \A i \in DOMAIN jit : \A k \in 1..2 : jit[i][k] \in JitterLow..JitterHigh

InitRepel ==
  \E w \in RepelWeights :
    InitState(RepelNodes, <<GraphEdge("n2", "n3", w), GraphEdge("n1", "n5", 500)>>)

NextRepel ==
  \/ EffectCleanup
  \/ \E jit \in {j \in {NoJitter, CoincideJitter} : InJitterRange(j)} : LayoutEffect(jit)
  \/ LoopEffect
  \/ Frame(FrameCap)
  \/ toggleEdgeLabels

SpecRepel == InitRepel /\ [][NextRepel]_vars

---------------------------------------------------------------------------
(* SpecFilter: the running frame loop while the filters change the node set *)

InitFilter == InitState(GraphTwo.nodes, GraphTwo.edges)

NextFilter ==
  \/ EffectCleanup
  \/ \E jit \in SameJitters(SimJitter) : LayoutEffect(jit)
  \/ LoopEffect
  \/ Frame(FrameCap)
  \/ verificationFilter = "all" /\ setVerificationFilter("verified")
  \/ categoryFilter = "all" /\ setCategoryFilter("claim")
  \/ (verificationFilter # "all" \/ categoryFilter # "all") /\ clearFilters
  \/ toggleEdgeLabels
  \/ unmount

SpecFilter == InitFilter /\ [][NextFilter]_vars

---------------------------------------------------------------------------
(* Claims *)

\* The handlers that change hover, tooltip, selection, zoom, pan, drag or a
\* panel toggle, and neither the graph, the filters nor the dimensions.
ViewHandlers == {"mouseMove", "mouseDown", "mouseUp", "mouseLeave", "click",
                 "closeSelected", "zoomIn", "zoomOut", "reset",
                 "toggleEdgeLabels", "toggleFilters"}

\* The ids of the nodes that pass the node filter, computed from the node list.
PassingIds == {nodes[i].id : i \in {i \in 1..Len(nodes) : NodePasses(nodes[i])}}

\* An endpoint of e is not the id of a node of the current filtered node set.
Dangling(e) == e.source \notin PassingIds \/ e.target \notin PassingIds

AllEdges == {edges[i] : i \in 1..Len(edges)}

\* C1: an edge whose source or target is not the id of a node of the current
\* filtered node set contributes no spring force, is not drawn and is not
\* hover-tested in any frame (and evaluating the frame with it present does
\* not fail); every edge with both endpoints present resolves, per endpoint,
\* to exactly one NodePosition, the one carrying that id, and takes part in
\* the physics step.
C1_DanglingEdgesInert ==
  /\ phase = "idle" =>
       /\ \A e \in forceEdges \cup drawnEdges : ~Dangling(e)
       /\ \A e \in AllEdges : ~Dangling(e) =>
            /\ e \in forceEdges
            /\ \A id \in {e.source, e.target} :
                 /\ MapGet(nodeMap, id) \in 1..Len(nodePositionsRef)
                 /\ nodePositionsRef[nodeMap[id]].node.id = id
                 /\ Cardinality({k \in 1..Len(nodePositionsRef) :
                                   nodePositionsRef[k].node.id = id}) = 1
  /\ lastHandler = "mouseMove" => \A e \in testedEdges : ~Dangling(e)

\* The example: nodes A and B with edges (A,B) and (A,"ghost"); a frame has
\* run and the pointer has been tested against the edges, and only A-B took
\* part in each.
C1_Witness ==
  /\ phase = "idle"
  /\ Len(nodes) = 2
  /\ GraphEdge("A", "ghost", 900) \in AllEdges
  /\ forceEdges = {GraphEdge("A", "B", 500)}
  /\ drawnEdges = {GraphEdge("A", "B", 500)}
  /\ lastHandler = "mouseMove"
  /\ testedEdges = {GraphEdge("A", "B", 500)}

\* C2: filteredEdges is exactly the input edges, in their order, whose source
\* and target are both ids of nodes that pass the node filter: none of its
\* edges references a filtered-out node and no edge with both endpoints
\* surviving is missing.
C2_FilteredEdgesExact ==
  /\ filteredEdges = SelectSeq(edges, LAMBDA e : ~Dangling(e))
  /\ \A k \in 1..Len(filteredEdges) :
       filteredEdges[k].source \in PassingIds /\ filteredEdges[k].target \in PassingIds
  /\ \A e \in AllEdges :
       (e.source \in PassingIds /\ e.target \in PassingIds)
          => \E k \in 1..Len(filteredEdges) : filteredEdges[k] = e

\* With only the category filter set, to "claim", node B is filtered out: of
\* the four edges only C-A survives, and a frame has used it.
C2_Witness ==
  /\ phase = "idle"
  /\ categoryFilter = "claim"
  /\ verificationFilter = "all" /\ credibilityThreshold = 0 /\ searchQuery = <<>>
  /\ Len(edges) = 4
  /\ filteredEdges = <<GraphEdge("C", "A", 200)>>
  /\ forceEdges = {GraphEdge("C", "A", 200)}

\* Position p lies within the canvas padded by pad on every side.
WithinPadding(p, pad) ==
  /\ isFinite(p.x) /\ isFinite(p.y)
  /\ pad <= p.x /\ p.x <= dimensions.width - pad
  /\ pad <= p.y /\ p.y <= dimensions.height - pad

AllPositions == {nodePositionsRef[i] : i \in 1..Len(nodePositionsRef)}

\* C3 as stated: after initialisation and any number n >= 0 of physics steps,
\* every node satisfies radius + 50 <= x <= width - radius - 50 and
\* radius + 50 <= y <= height - radius - 50.
C3_AsStated ==
  phase \in {"loop", "idle"} =>
    \A p \in AllPositions : WithinPadding(p, p.radius + 50 * Unit)

\* C3 amended: right after initialisation (no physics step yet) every node
\* satisfies 50 <= x <= width - 50 and 50 <= y <= height - 50; after one or
\* more physics steps it satisfies radius + 50 <= x <= width - radius - 50 and
\* radius + 50 <= y <= height - radius - 50.
C3_Padding ==
  /\ phase = "loop" => \A p \in AllPositions : WithinPadding(p, 50 * Unit)
  /\ phase = "idle" => /\ frameCount >= 1
                       /\ \A p \in AllPositions : WithinPadding(p, p.radius + 50 * Unit)

\* A physics step has held a node on the padded top boundary.
C3_Witness ==
  /\ phase = "idle"
  /\ frameCount >= 1
  /\ \E p \in AllPositions : p.y = p.radius + 50 * Unit

\* C4: getNodeRadius returns a finite number within [12, 50] for every node,
\* whatever its degree and whether its engagement weight and credibility
\* score are ordinary numbers, NaN or +/-Infinity; the radius stored with a
\* node's position is that number.
C4_RadiusInBand ==
  /\ \A i \in 1..Len(nodes) :
       LET r == getNodeRadius(nodes[i])
       IN  isFinite(r) /\ 12 * Unit <= r /\ r <= 50 * Unit
  /\ \A p \in AllPositions :
       /\ p.radius = getNodeRadius(p.node)
       /\ isFinite(p.radius) /\ 12 * Unit <= p.radius /\ p.radius <= 50 * Unit

\* A node of the largest degree with a NaN engagement weight and an infinite
\* credibility score has been placed with the radius cut to 50.
C4_Witness ==
  /\ phase = "idle"
  /\ Len(edges) = MaxDegree
  /\ nodes[1].engagementWeight = NaN
  /\ nodes[1].credibilityScore = PosInf
  /\ nodePositionsRef[1].radius = 50 * Unit

\* C5: the zoom factor always satisfies 0.3 <= zoom <= 3.0; zooming in at 3.0
\* and zooming out at 0.3 leave it unchanged.
C5_ZoomBand ==
  [][/\ 300 <= zoom' /\ zoom' <= 3 * Unit
     /\ (phase = "idle" /\ lastHandler' = "zoomIn" /\ zoom = 3 * Unit) => zoom' = zoom
     /\ (phase = "idle" /\ lastHandler' = "zoomOut" /\ zoom = 300) => zoom' = zoom]_vars

\* Zoom in was pressed at the upper limit: no render followed it, the frame
\* loop still stands where the explored frames ended.
C5_Witness ==
  /\ zoom = 3 * Unit
  /\ lastHandler = "zoomIn"
  /\ phase = "idle"
  /\ frameCount = FrameCap

\* C6: a click (not a drag) while node B is hovered and the selection is not
\* B makes B the selection and opens no URL.
C6_ClickSelects ==
  [][(/\ phase = "idle" /\ lastHandler' = "click"
      /\ ~isDragging /\ hoveredNode # Null
      /\ (selectedNode = Null \/ selectedNode.node.id # hoveredNode.node.id))
       => (selectedNode' = hoveredNode /\ opened' = <<>>)]_vars

\* A click has just made the hovered node B the selection.
C6_Witness ==
  /\ lastHandler = "click"
  /\ phase = "cleanup"
  /\ hoveredNode # Null /\ hoveredNode.node.id = "B"
  /\ selectedNode = hoveredNode
  /\ opened = <<>>

\* C7: a click on the node that is already selected leaves the selection
\* unchanged and opens the node's URL in a new tab if and only if the node
\* has a non-empty url.
C7_SecondClickOpens ==
  [][(/\ phase = "idle" /\ lastHandler' = "click"
      /\ ~isDragging /\ hoveredNode # Null
      /\ selectedNode # Null /\ selectedNode.node.id = hoveredNode.node.id)
       => /\ selectedNode' = selectedNode
          /\ opened' = IF hoveredNode.node.url # <<>>
                       THEN <<[url |-> hoveredNode.node.url, target |-> "_blank"]>>
                       ELSE <<>>]_vars

\* The second click on A has opened A's URL.
C7_Witness ==
  /\ lastHandler = "click"
  /\ selectedNode # Null /\ selectedNode.node.id = "A"
  /\ opened = <<[url |-> <<"u">>, target |-> "_blank"]>>

\* C8: a click with no node hovered and no drag in progress clears the
\* selection; apart from it only the close button and reset clear the
\* selection, no other pointer action does.
C8_ClearSelection ==
  [][/\ (phase = "idle" /\ lastHandler' = "click" /\ ~isDragging /\ hoveredNode = Null)
          => selectedNode' = Null
     /\ (selectedNode # Null /\ selectedNode' = Null)
          => \/ phase = "idle" /\ lastHandler' = "click" /\ ~isDragging /\ hoveredNode = Null
             \/ phase = "idle" /\ lastHandler' \in {"closeSelected", "reset"}]_vars

\* A click on empty space has just cleared a selection.
C8_Witness ==
  /\ lastHandler = "click"
  /\ phase = "cleanup"
  /\ hoveredNode = Null
  /\ ~isDragging
  /\ selectedNode = Null

\* C9 as stated: once the 400-step budget is exhausted, no hover, selection,
\* zoom, pan or edge-label toggle causes a further physics step: positions
\* and velocities stay as they are and the step counter stays at its budget.
C9_FrozenAfterBudget ==
  [][(frameCount >= maxFrames /\ lastHandler' \in ViewHandlers \cup {"frame"})
       => (nodePositionsRef' = nodePositionsRef /\ frameCount' >= maxFrames)]_vars

\* C10 as stated: a re-render caused by hover, tooltip, selection, zoom, pan,
\* drag or a panel toggle leaves the positions and velocities of the
\* NodePosition array unchanged (the array is not rebuilt).
C10_NoRebuildOnViewChange ==
  [][(phase \in {"cleanup", "layout"} /\ lastHandler \in ViewHandlers)
       => nodePositionsRef' = nodePositionsRef]_vars

\* C11 as stated: a pan-drag gesture (pointer-down, one or more pointer-moves,
\* pointer-up, then the click delivered after the pointer-up) changes neither
\* the hovered node or edge nor the selected node and opens no URL.
C11_DragSuppressesClick ==
  [][(\/ gesture'.stage \in {"drag", "up"}
      \/ gesture.stage = "up" /\ phase = "idle" /\ lastHandler' = "click")
       => /\ hoveredNode' = hoveredNode
          /\ hoveredEdge' = hoveredEdge
          /\ selectedNode' = selectedNode
          /\ opened' = <<>>]_vars

\* C12: once the frame-loop effect has been cleaned up (before the effects
\* of a new render, or when the component is torn down) no animation frame
\* is left scheduled, and after teardown no simulate callback runs again.
C12_FrameCancelled ==
  [][/\ phase' \in {"layout", "loop", "unmounted"} => ~rafPending'
     /\ phase = "unmounted" => lastHandler' # "frame"]_vars

\* The component was torn down while a frame of a running loop was
\* scheduled; the frame is no longer queued.
C12_Witness ==
  /\ phase = "unmounted"
  /\ lastHandler = "unmount"
  /\ animationRef # 0
  /\ frameCount >= 1
  /\ ~rafPending

\* The handlers of the four filter controls and of "clear filters".
FilterHandlers == {"setSearchQuery", "setCategoryFilter", "setVerificationFilter",
                   "setCredibilityThreshold", "clearFilters"}

\* C13: after any filter change (once the effects of its render have run) the
\* layout holds exactly one NodePosition for every node that passes the
\* filter and none for a filtered-out node, in the order of the node list, so
\* the repulsion loop ranges over passing nodes only and no spring force
\* touches a filtered-out node.
C13_LayoutHoldsPassingNodes ==
  phase \in {"loop", "idle"} =>
    /\ \A i \in 1..Len(nodes) :
         Cardinality({k \in 1..Len(nodePositionsRef) : nodePositionsRef[k].node = nodes[i]})
           = IF NodePasses(nodes[i]) THEN 1 ELSE 0
    /\ Len(nodePositionsRef) = Cardinality({i \in 1..Len(nodes) : NodePasses(nodes[i])})
    /\ \A k \in 1..Len(nodePositionsRef) : nodePositionsRef[k].node.id \in PassingIds
    /\ phase = "idle" =>
         \A e \in forceEdges : e.source \in PassingIds /\ e.target \in PassingIds

\* A filter change has removed node A of three from the layout: B and C are
\* placed, a physics step has run over them.
C13_Witness ==
  /\ phase = "idle"
  /\ lastHandler \in FilterHandlers
  /\ Len(nodes) = 3
  /\ Len(nodePositionsRef) = 2
  /\ nodePositionsRef[1].node.id = "B"
  /\ nodePositionsRef[2].node.id = "C"
  /\ frameCount = 1

\* a >= b on JavaScript numbers: false when either side is NaN.
AtLeast(a, b) == a # NaN /\ b # NaN /\ a >= b

\* C14 as stated: a node is in the filtered node set if and only if the
\* search text is empty or a case-insensitive substring of its author or of
\* its content, the category filter is "all" or its category, the
\* verification filter is "all" or its verificationStatus, and its
\* credibilityScore is at least threshold / 100, whatever the score (NaN and
\* out-of-range values included).
C14_FilterSemantics ==
  \A i \in 1..Len(nodes) :
    LET node == nodes[i]
        q == toLowerCase(searchQuery)
    IN  (\E k \in 1..Len(filteredNodes) : filteredNodes[k] = node)
          <=> /\ \/ searchQuery = <<>>
                 \/ includes(toLowerCase(node.author), q)
                 \/ includes(toLowerCase(node.content), q)
              /\ categoryFilter = "all" \/ categoryFilter = node.category
              /\ verificationFilter = "all" \/ verificationFilter = node.verificationStatus
              /\ AtLeast(node.credibilityScore, credibilityThreshold * 10)

\* The index in filteredNodes of the first node of category c.
FirstAppearance(c) ==
  CHOOSE i \in 1..Len(filteredNodes) :
    /\ filteredNodes[i].category = c
    /\ \A k \in 1..(i - 1) : filteredNodes[k].category # c

\* C15: layout initialisation orders the category groups by descending mean
\* credibility score, groups of equal mean in first-appearance order; every
\* run on the same node list gives every node the same angular slot, whatever
\* the jitter: its initial position is within the jitter amplitude (30 per
\* axis) of the jitter-free position of that slot.
C15_CategoryOrder ==
  LET s == sortedCategories
  IN  /\ {s[i] : i \in 1..Len(s)}
           = {filteredNodes[k].category : k \in 1..Len(filteredNodes)}
      /\ \A i, j \in 1..Len(s) : i < j =>
           /\ s[i] # s[j]
           /\ \/ AvgCredibility(s[i]) > AvgCredibility(s[j])
              \/ /\ AvgCredibility(s[i]) = AvgCredibility(s[j])
                 /\ FirstAppearance(s[i]) < FirstAppearance(s[j])
      /\ phase = "loop" =>
           \A k \in 1..Len(nodePositionsRef) :
             /\ Abs(nodePositionsRef[k].x - LayoutPositions(NoJitter)[k].x) <= 30 * Unit
             /\ Abs(nodePositionsRef[k].y - LayoutPositions(NoJitter)[k].y) <= 30 * Unit

\* The layout has run again (after a toggle), with jitter; the groups are in
\* the order evidence (0.9), source (0.5), context (0.4), claim (0.4), not
\* their order of appearance.
C15_Witness ==
  /\ phase = "loop"
  /\ lastHandler = "toggleEdgeLabels"
  /\ sortedCategories = <<"evidence", "source", "context", "claim">>
  /\ nodePositionsRef[1].x # LayoutPositions(NoJitter)[1].x

\* The credibility clamped to [0, 1], 0.5 for a non-finite value.
ClampedCredibility(c) ==
  IF c \in {NaN, PosInf, NegInf} THEN 500
  ELSE IF c < 0 THEN 0
  ELSE IF c > Unit THEN Unit
  ELSE c

\* C16: for every node, whatever its credibilityScore (NaN, infinite,
\* negative and above 1 included), the initial distance from the canvas
\* centre is finite, lies in [200, 400] and equals 200 + (1 - c) * 200 with c
\* the credibility clamped to [0, 1] (0.5 for a non-finite value); the
\* initial x and y are finite and, without jitter, that far from the centre.
C16_InitialDistance ==
  /\ \A i \in 1..Len(nodes) :
       LET d == distanceFromCenter(nodes[i])
       IN  /\ isFinite(d)
           /\ 200 * Unit <= d /\ d <= 400 * Unit
           /\ d = 200 * Unit + (Unit - ClampedCredibility(nodes[i].credibilityScore)) * 200
  /\ phase = "loop" =>
       \A k \in 1..Len(nodePositionsRef) :
         LET p == nodePositionsRef[k]
             dx == p.x - dimensions.width \div 2
             dy == p.y - dimensions.height \div 2
         IN  /\ isFinite(p.x) /\ isFinite(p.y)
             /\ Abs(Hypot(dx, dy) - distanceFromCenter(p.node)) <= Unit

\* A node with credibilityScore NaN has been placed 300 from the centre.
C16_Witness ==
  /\ phase = "loop"
  /\ nodes[1].credibilityScore = NaN
  /\ distanceFromCenter(nodePositionsRef[1].node) = 300 * Unit
  /\ isFinite(nodePositionsRef[1].x) /\ isFinite(nodePositionsRef[1].y)

\* C17: a URL is opened only by a click, made while no drag is in progress, on
\* the hovered node N while N is the selection; the URL opened is N's and N
\* stays selected.  A node becomes the selection only by a click, and that
\* click opens nothing.  So no single click on an unselected node and no
\* hover, drag, zoom or filter action opens a URL.
C17_OpenOnlyOnSecondClick ==
  [][/\ opened' # <<>>
          => /\ phase = "idle" /\ lastHandler' = "click" /\ ~isDragging
             /\ hoveredNode # Null /\ selectedNode # Null
             /\ selectedNode.node.id = hoveredNode.node.id
             /\ selectedNode' = selectedNode
             /\ opened' = <<[url |-> hoveredNode.node.url, target |-> "_blank"]>>
     /\ (selectedNode' # Null /\ selectedNode' # selectedNode)
          => /\ phase = "idle" /\ lastHandler' = "click"
             /\ opened' = <<>>]_vars

\* After a zoom step, a drag and a filter change, the second click on the
\* selected node A has opened A's URL.
C17_Witness ==
  /\ lastHandler = "click"
  /\ zoom # 850 /\ pan.x # 50 * Unit /\ verificationFilter = "verified"
  /\ hoveredNode # Null /\ selectedNode # Null
  /\ selectedNode.node.id = "A" /\ hoveredNode.node.id = "A"
  /\ opened = <<[url |-> hoveredNode.node.url, target |-> "_blank"]>>

\* The indices of the placed nodes within radius + 10 of the world point, and
\* of the edges between placed nodes within 12 of it.
NodesNear(x, y) ==
  {i \in 1..Len(nodePositionsRef) :
     Hypot(nodePositionsRef[i].x - x, nodePositionsRef[i].y - y)
       < nodePositionsRef[i].radius + 10 * Unit}

EdgesNear(x, y) ==
  LET map == MakeNodeMap(nodePositionsRef)
  IN  {k \in 1..Len(filteredEdges) :
         /\ filteredEdges[k].source \in DOMAIN map
         /\ filteredEdges[k].target \in DOMAIN map
         /\ EdgeHit(nodePositionsRef, map, filteredEdges[k], x, y)}

\* C18: hoveredNode and hoveredEdge are never both set.  A pointer move made
\* while not dragging that has a node within radius + 10 of the pointer makes
\* such a node the hovered node, sets the hovered edge to none and tests no
\* edge; with no node that near, the hovered node is none and the hovered
\* edge is the first edge of the list within 12 of the pointer, if any.
C18_HoverPriority ==
  /\ [](hoveredNode = Null \/ hoveredEdge = Null)
  /\ [][(phase = "idle" /\ lastHandler' = "mouseMove" /\ ~isDragging)
          => LET x == ToWorld(gesture'.at[1], pan.x)
                 y == ToWorld(gesture'.at[2], pan.y)
             IN  IF NodesNear(x, y) # {}
                 THEN /\ hoveredNode' # Null
                      /\ \E i \in NodesNear(x, y) :
                           hoveredNode'.node.id = nodePositionsRef[i].node.id
                      /\ hoveredEdge' = Null
                      /\ testedEdges' = {}
                 ELSE /\ hoveredNode' = Null
                      /\ IF EdgesNear(x, y) = {} THEN hoveredEdge' = Null
                         ELSE \E k \in EdgesNear(x, y) :
                                /\ \A j \in EdgesNear(x, y) : k <= j
                                /\ hoveredEdge' = filteredEdges[k]]_vars

\* A pointer move has found node A at a point that is also within 12 of both
\* edges between A and B: A is hovered, no edge is, and no edge was tested.
C18_Witness ==
  /\ lastHandler = "mouseMove" /\ ~isDragging /\ PointerInside
  /\ hoveredNode # Null /\ hoveredNode.node.id = "A"
  /\ hoveredEdge = Null /\ testedEdges = {}
  /\ Cardinality(EdgesNear(ToWorld(gesture.at[1], pan.x),
                           ToWorld(gesture.at[2], pan.y))) = 2

\* The handlers of the canvas's pointer-down, pointer-move, pointer-up and
\* pointer-leave events.
DragHandlers == {"mouseDown", "mouseMove", "mouseUp", "mouseLeave"}

\* C19: a pointer move during a drag makes the pan the pan at pointer-down
\* plus the pointer's displacement since pointer-down; pointer-down starts
\* the drag without changing the pan; pointer-up and pointer-leave end the
\* drag without changing the pan; a pointer move outside a drag leaves the
\* pan alone; none of these events changes the zoom.
C19_DragPan ==
  [][phase = "idle" =>
       /\ (lastHandler' = "mouseMove" /\ isDragging)
            => /\ pan' = [x |-> gesture.pan.x + (gesture'.at[1] - gesture.down[1]),
                          y |-> gesture.pan.y + (gesture'.at[2] - gesture.down[2])]
               /\ isDragging'
       /\ (lastHandler' = "mouseMove" /\ ~isDragging)
            => (pan' = pan /\ ~isDragging')
       /\ lastHandler' = "mouseDown" => (pan' = pan /\ isDragging')
       /\ lastHandler' \in {"mouseUp", "mouseLeave"} => (pan' = pan /\ ~isDragging')
       /\ lastHandler' \in DragHandlers => zoom' = zoom]_vars

\* A drag that began over a hovered node has moved the pointer by DragStep:
\* the pan is DragStep to the right of the pan at pointer-down.
C19_Witness ==
  /\ lastHandler = "mouseMove" /\ isDragging /\ gesture.stage = "drag"
  /\ hoveredNode # Null
  /\ gesture.at = <<gesture.down[1] + DragStep, gesture.down[2]>>
  /\ pan = [x |-> gesture.pan.x + DragStep, y |-> gesture.pan.y]

\* A finite number: not NaN and not an infinity.
Finite(v) == isFinite(v) /\ Abs(v) < PosInf

\* The displacement <<x, y>> the node loop of the next physics step adds to
\* position i before its boundary constraints: the velocity it leaves there.
StepDisplacement(i) ==
  LET Q == NodeLoop(nodePositionsRef, 1, frameCount)
  IN  <<Q[i].vx, Q[i].vy>>

\* C20: every placed node's x, y, vx and vy are finite, and the displacement
\* a physics step adds to a position before the boundary constraints is at
\* most 10 on each axis.
C20_FiniteAndBoundedStep ==
  \A i \in 1..Len(nodePositionsRef) :
    /\ Finite(nodePositionsRef[i].x) /\ Finite(nodePositionsRef[i].y)
    /\ Finite(nodePositionsRef[i].vx) /\ Finite(nodePositionsRef[i].vy)
    /\ frameCount < maxFrames
         => /\ Abs(StepDisplacement(i)[1]) <= 10 * Unit
            /\ Abs(StepDisplacement(i)[2]) <= 10 * Unit

\* After two physics steps over a node with NaN engagement and edges of
\* infinite weight, the velocity cap limits the next step's displacement.
C20_Witness ==
  /\ frameCount = 2
  /\ nodes[1].engagementWeight = NaN
  /\ edges[1].weight = PosInf
  /\ \E i \in 1..Len(nodePositionsRef) :
       10 * Unit \in {Abs(StepDisplacement(i)[1]), Abs(StepDisplacement(i)[2])}

Sign(v) == IF v > 0 THEN 1 ELSE IF v < 0 THEN -1 ELSE 0

\* A physics step is due: the frame-loop effect is about to start a loop, or
\* a frame is pending with budget left.  StepCount and StepMap are the
\* counter and the id map that step runs with.
StepDue ==
  \/ phase = "loop"
  \/ phase = "idle" /\ rafPending /\ frameCount < maxFrames

StepCount == IF phase = "loop" THEN 0 ELSE frameCount

StepMap == IF phase = "loop" THEN MakeNodeMap(nodePositionsRef) ELSE nodeMap

\* The positions the edge loop of the due step starts from.
AfterNodeLoop == NodeLoop(nodePositionsRef, 1, StepCount)

\* 160 + (1 - edgeWeight) * 120 + (source.radius + target.radius)
IdealDist(weight, rs, rt) ==
  160 * Unit + (Unit - sanitizeValue(weight, 500, 0, Unit)) * 120 + (rs + rt)

\* What the edge loop does for edge e on the positions Q: the velocity
\* changes of its two endpoints are opposite; farther apart than the ideal
\* distance the source's change points to the target, closer it points away.
SpringOK(Q, map, e) ==
  LET s == map[e.source]
      t == map[e.target]
      R == ApplyEdge(Q, map, e)
      ds == <<R[s].vx - Q[s].vx, R[s].vy - Q[s].vy>>
      dt == <<R[t].vx - Q[t].vx, R[t].vy - Q[t].vy>>
      dx == Q[t].x - Q[s].x
      dy == Q[t].y - Q[s].y
      dist == Hypot(dx, dy)
      ideal == IdealDist(e.weight, Q[s].radius, Q[t].radius)
  IN  /\ s # t => (ds[1] = -dt[1] /\ ds[2] = -dt[2])
      /\ dist > ideal => <<Sign(ds[1]), Sign(ds[2])>> = <<Sign(dx), Sign(dy)>>
      /\ dist < ideal => <<Sign(ds[1]), Sign(ds[2])>> = <<-Sign(dx), -Sign(dy)>>
                          /\ ds # <<0, 0>>

\* C21: in every physics step, for every edge with both endpoints placed, the
\* source's and the target's velocity changes are opposite, they pull the
\* endpoints together when these are farther apart than the ideal distance
\* and push them apart when closer; and the ideal distance does not grow
\* with the weight.
C21_SpringForce ==
  /\ StepDue =>
       \A k \in 1..Len(filteredEdges) :
         Resolves(StepMap, filteredEdges[k])
           => SpringOK(AfterNodeLoop, StepMap, filteredEdges[k])
  /\ \A w1, w2 \in RepelWeights \cup StepScores :
       (sanitizeValue(w1, 500, 0, Unit) <= sanitizeValue(w2, 500, 0, Unit))
         => IdealDist(w1, 20 * Unit, 20 * Unit) >= IdealDist(w2, 20 * Unit, 20 * Unit)

RECURSIVE NodePrefix(_, _, _)
\* The positions once the node loop has handled the nodes 1..k.
NodePrefix(P, k, fc) ==
  IF k = 0 THEN P
  ELSE LET Q == NodePrefix(P, k - 1, fc)
       IN  [Q EXCEPT ![k] = UpdateNode(Q, k, fc)]

\* p2 is within the repulsion range of p1:
\* effectiveDist < minDist * 2.5 with minDist = p1.radius + p2.radius + 70.
InRepulsionRange(p1, p2) ==
  MathMax(Hypot(p1.x - p2.x, p1.y - p2.y), 10 * Unit) * 2
    < (p1.radius + p2.radius + 70 * Unit) * 5

\* The direction of (dx / effectiveDist) * forceMagnitude * 0.1 on each axis,
\* forceMagnitude being positive while frameCount < maxFrames.
RepulsionDirection(p1, p2) == <<Sign(p1.x - p2.x), Sign(p1.y - p2.y)>>

\* C22: in the physics step that is due, every node i receives from every
\* other node j within the repulsion range a velocity change that is not
\* zero and points away from j, also when i and j are at the same point.
\* (i sees the nodes before it in the list where the step has already moved
\* them.  The change's direction is taken exactly; its size, held in
\* thousandths, may round to zero but never points toward j.)
C22_RepulsionPushesApart ==
  StepDue =>
    \A i \in 1..Len(nodePositionsRef) :
      LET Q == NodePrefix(nodePositionsRef, i - 1, StepCount)
      IN  \A j \in 1..Len(Q) :
            (i # j /\ InRepulsionRange(Q[i], Q[j]))
              => /\ RepulsionDirection(Q[i], Q[j]) # <<0, 0>>
                 /\ \A k \in 1..2 :
                      Sign(Repulsion(Q[i], Q[j], StepCount)[k])
                        \in {0, RepulsionDirection(Q[i], Q[j])[k]}

\* C23: a pointer move made while not dragging that leaves a node or an edge
\* hovered sets tooltipPosition to that move's pointer position.
C23_TooltipAtPointer ==
  [][(/\ phase = "idle" /\ lastHandler' = "mouseMove" /\ ~isDragging
      /\ (hoveredNode' # Null \/ hoveredEdge' # Null))
       => tooltipPosition' = [x |-> gesture'.at[1], y |-> gesture'.at[2]]]_vars

\* The node's distance from the centre of the canvas.
DistToCenter(p) == Hypot(p.x - dimensions.width \div 2, p.y - dimensions.height \div 2)

\* The centring velocity change <<x, y>> of the node loop for position p.
CenterPull(p) ==
  IF DistToCenter(p) > 380 * Unit
  THEN <<sanitizeValue(RDiv((dimensions.width \div 2 - p.x) * 15, 10000), 0,
                       -2 * Unit, 2 * Unit),
         sanitizeValue(RDiv((dimensions.height \div 2 - p.y) * 15, 10000), 0,
                       -2 * Unit, 2 * Unit)>>
  ELSE <<0, 0>>

\* C24: in the physics step that is due a node gets a centring velocity
\* change only if it is farther than 380 from the centre; the change then
\* points toward the centre and its size is 0.0015 times the excess of the
\* distance over 380 (to within a hundredth), so none at zero excess.
C24_CenterPull ==
  StepDue =>
    \A i \in 1..Len(nodePositionsRef) :
      LET p == nodePositionsRef[i]
          pull == CenterPull(p)
          excess == DistToCenter(p) - 380 * Unit
      IN  IF excess <= 0 THEN pull = <<0, 0>>
          ELSE /\ Sign(pull[1]) \in {0, Sign(dimensions.width \div 2 - p.x)}
               /\ Sign(pull[2]) \in {0, Sign(dimensions.height \div 2 - p.y)}
               /\ Abs(Hypot(pull[1], pull[2]) - RDiv(excess * 15, 10000)) <= 10


\* C25: at most one animation-frame callback of the graph loop is queued at
\* any time, whatever the interleaving of frames, re-renders (cleanup and
\* re-run of the effects) and unmount; and a frame callback only ever runs
\* as the one queued callback of the loop that the latest effect run
\* started, leaving again exactly one callback queued.
C25_SinglePendingFrame ==
  /\ [](pendingFrames <= 1)
  /\ [][(lastHandler' = "frame" /\ frameCount' = frameCount + 1 /\ phase' = phase)
          => /\ phase = "idle"
             /\ ~nodeMapStale
             /\ pendingFrames = 1
             /\ pendingFrames' = 1]_vars

\* A frame ran after at least two re-renders (the zoom and the filter panel
\* both changed): one callback is queued.
C25_Witness ==
  /\ phase = "idle"
  /\ lastHandler = "frame"
  /\ zoom # 850
  /\ showFilters
  /\ frameCount = 2
  /\ pendingFrames = 1


\* C26: whenever simulate() runs, from the effect or as a queued frame, and
\* whenever a frame is queued, nodeMap is the map of the position objects
\* now in nodePositionsRef: it was captured after the latest layout
\* initialisation and sends each id to the position that carries it, so no
\* frame moves or draws an edge from a replaced position object.
C26_NodeMapCurrent ==
  /\ [](rafPending => (~nodeMapStale /\ nodeMap = MakeNodeMap(nodePositionsRef)))
  /\ [][/\ (phase = "loop" /\ phase' = "idle")
            => (~nodeMapStale' /\ nodeMap' = MakeNodeMap(nodePositionsRef))
        /\ (lastHandler' = "frame" /\ frameCount' = frameCount + 1 /\ phase' = phase)
            => /\ ~nodeMapStale
               /\ nodeMap = MakeNodeMap(nodePositionsRef)
               /\ forceEdges' = ForceEdgesOf(MakeNodeMap(nodePositionsRef), filteredEdges)
               /\ drawnEdges' = DrawnEdgesOf(nodePositionsRef', MakeNodeMap(nodePositionsRef),
                                             filteredEdges)]_vars

\* A queued frame ran after the verification filter removed nodes B and C:
\* the map holds node A alone.
C26_Witness ==
  /\ phase = "idle"
  /\ lastHandler = "frame"
  /\ frameCount = 2
  /\ verificationFilter = "verified"
  /\ Len(nodePositionsRef) = 1
  /\ DOMAIN nodeMap = {"A"}
  /\ ~nodeMapStale


\* C27: the selected node, when set, is one of the current filtered nodes:
\* a filter change that removes the selected node clears the selection.
C27_SelectionFiltered ==
  selectedNode # Null
    => \E i \in 1..Len(filteredNodes) : filteredNodes[i].id = selectedNode.node.id


\* The filters as useState initialises them and as clearFilters leaves them
DefaultFilters ==
  /\ searchQuery = <<>>
  /\ categoryFilter = "all"
  /\ verificationFilter = "all"
  /\ credibilityThreshold = 0

\* C28: with every filter at its default, at mount and after clearFilters,
\* the filtered nodes are all the input nodes, whatever their credibility
\* scores (negative, above 1 or not finite).
C28_DefaultShowsAll == DefaultFilters => filteredNodes = nodes


\* The number of edges that take part in the layout and touch the node
LayoutDegree(node) ==
  Cardinality({i \in 1..Len(filteredEdges) :
                 filteredEdges[i].source = node.id \/ filteredEdges[i].target = node.id})

\* The radius getNodeRadius computes from a connection count
RadiusOfDegree(node, connectionCount) ==
  LET baseRadius == MathMin(MathMax(16 * Unit, 12 * Unit + connectionCount * 2 * Unit), 40 * Unit)
      weightMultiplier ==
        Unit + RDiv(sanitizeValue(node.engagementWeight, 500, 0, Unit) * 6, 10)
      credibilityBonus ==
        IF sanitizeValue(node.credibilityScore, 500, 0, Unit) > 800 THEN 1200 ELSE Unit
      radius ==
        MathMin(RDiv(RDiv(baseRadius * weightMultiplier, Unit) * credibilityBonus, Unit),
                50 * Unit)
  IN  sanitizeValue(radius, 20 * Unit, 12 * Unit, 50 * Unit)

\* C29: the radius of every placed node is the radius of its degree among
\* the edges that take part in the layout (both endpoints in the filtered
\* node set): an edge to an absent or filtered-out node does not change it.
C29_RadiusCountsLayoutEdges ==
  \A i \in 1..Len(nodePositionsRef) :
    nodePositionsRef[i].radius
      = RadiusOfDegree(nodePositionsRef[i].node, LayoutDegree(nodePositionsRef[i].node))


\* C30: after every completed physics step (node loop with damping, cap and
\* boundary clamp, then the edge forces) the velocity components of every
\* node lie within [-10, 10].
C30_VelocityWithinCap ==
  (phase = "idle" /\ frameCount >= 1)
    => \A i \in 1..Len(nodePositionsRef) :
         /\ nodePositionsRef[i].vx \in (-10 * Unit)..(10 * Unit)
         /\ nodePositionsRef[i].vy \in (-10 * Unit)..(10 * Unit)

=============================================================================
